---- MODULE Spec2Model ----
(***************************************************************************)
(* A model of the DCF valuation engine of dcf-ui (src/src/utils/dcf.ts).   *)
(*                                                                         *)
(* JavaScript numbers are modelled as exact values: a finite number is a   *)
(* signed fraction n/d scaled by a power of ten, and NaN, +Infinity and    *)
(* -Infinity are values of their own, produced and propagated as the       *)
(* JavaScript operators produce and propagate them.  An absent (undefined) *)
(* option is a value of its own too.  Rounding of binary floating point is *)
(* not modelled.                                                           *)
(***************************************************************************)
EXTENDS Integers, Sequences, FiniteSets, TLC

\* ------------------------------------------------------------------------
\* Natural numbers of any size: a sequence of limbs base BASE, least
\* significant limb first, without a leading zero limb; zero is << >>.
\* ------------------------------------------------------------------------
BASE == 10 ^ 4

RECURSIVE NTrim(_)
NTrim(a) ==
  IF a = << >> THEN a
  ELSE IF a[Len(a)] = 0 THEN NTrim(SubSeq(a, 1, Len(a) - 1)) ELSE a

RECURSIVE NFromInt(_)
NFromInt(k) ==
  IF k = 0 THEN << >> ELSE <<k % BASE>> \o NFromInt(k \div BASE)

NLimb(a, i) == IF i <= Len(a) THEN a[i] ELSE 0

\* a limb s % BASE followed by the rest of the sum, carrying s \div BASE
RECURSIVE NAddC(_, _, _, _)
NAddS(a, b, i, s) == <<s % BASE>> \o NAddC(a, b, i + 1, s \div BASE)
NAddC(a, b, i, c) ==
  IF i > Len(a) /\ i > Len(b)
  THEN (IF c = 0 THEN << >> ELSE <<c>>)
  ELSE NAddS(a, b, i, NLimb(a, i) + NLimb(b, i) + c)

NAdd(a, b) == NAddC(a, b, 1, 0)

RECURSIVE NCmpAt(_, _, _)
NCmpAt(a, b, i) ==
  IF i = 0 THEN 0
  ELSE IF a[i] < b[i] THEN -1
  ELSE IF a[i] > b[i] THEN 1
  ELSE NCmpAt(a, b, i - 1)

\* -1, 0 or 1 as a < b, a = b or a > b
NCmp(a, b) ==
  IF Len(a) < Len(b) THEN -1
  ELSE IF Len(a) > Len(b) THEN 1
  ELSE NCmpAt(a, b, Len(a))

RECURSIVE NSubC(_, _, _, _)
NSubS(a, b, i, s) ==
  IF s < 0 THEN <<s + BASE>> \o NSubC(a, b, i + 1, 1)
  ELSE <<s>> \o NSubC(a, b, i + 1, 0)
NSubC(a, b, i, c) ==
  IF i > Len(a) THEN << >> ELSE NSubS(a, b, i, a[i] - NLimb(b, i) - c)

\* a - b, for a >= b
NSub(a, b) == NTrim(NSubC(a, b, 1, 0))

RECURSIVE NConv(_, _, _, _)
NConv(a, b, k, i) ==
  IF i > Len(a) \/ i > k THEN 0
  ELSE (IF k - i + 1 <= Len(b) THEN a[i] * b[k - i + 1] ELSE 0)
       + NConv(a, b, k, i + 1)

RECURSIVE NMulC(_, _, _, _)
NMulS(a, b, k, s) == <<s % BASE>> \o NMulC(a, b, k + 1, s \div BASE)
NMulC(a, b, k, c) ==
  IF k > Len(a) + Len(b) - 1 THEN NFromInt(c)
  ELSE NMulS(a, b, k, NConv(a, b, k, 1) + c)

NMul(a, b) ==
  IF a = << >> \/ b = << >> THEN << >>
  ELSE IF a = <<1>> THEN b
  ELSE IF b = <<1>> THEN a
  ELSE NMulC(a, b, 1, 0)

RECURSIVE NPow10(_)
NPow10(k) == IF k >= 4 THEN <<0>> \o NPow10(k - 4) ELSE <<10 ^ k>>

RECURSIVE NDivSmallAt(_, _, _, _)
NDivSmallS(a, k, i, cur) ==
  NDivSmallAt(a, k, i - 1, cur % k) \o <<cur \div k>>
NDivSmallAt(a, k, i, r) ==
  IF i = 0 THEN << >> ELSE NDivSmallS(a, k, i, r * BASE + a[i])

\* the quotient of a by a small k (0 < k <= 10 ^ 4), remainder dropped
NDivSmall(a, k) == NTrim(NDivSmallAt(a, k, Len(a), 0))

N1 == <<1>>

\* the value of a small natural (below 10 ^ 8) as an integer
NToInt(a) == NLimb(a, 1) + BASE * NLimb(a, 2)

RECURSIVE IGcd(_, _)
IGcd(x, y) == IF y = 0 THEN x ELSE IGcd(y, x % y)

\* ------------------------------------------------------------------------
\* JavaScript values of type number | undefined.
\*   k = "fin":   (-1)^neg * n/d * 10^e, with n, d naturals, d > 0
\*   k = "nan", k = "inf" (signed by neg), k = "undef" (undefined)
\* ------------------------------------------------------------------------
Val(k, neg, n, d, e) == [k |-> k, neg |-> neg, n |-> n, d |-> d, e |-> e]

NaN        == [k |-> "nan", neg |-> FALSE, n |-> << >>, d |-> <<1>>, e |-> 0]
Undef      == [k |-> "undef", neg |-> FALSE, n |-> << >>, d |-> <<1>>, e |-> 0]
Inf(neg)   == [k |-> "inf", neg |-> neg, n |-> << >>, d |-> <<1>>, e |-> 0]
Zero       == [k |-> "fin", neg |-> FALSE, n |-> << >>, d |-> <<1>>, e |-> 0]
One        == [k |-> "fin", neg |-> FALSE, n |-> <<1>>, d |-> <<1>>, e |-> 0]
Two        == [k |-> "fin", neg |-> FALSE, n |-> <<2>>, d |-> <<1>>, e |-> 0]
Hundred    == [k |-> "fin", neg |-> FALSE, n |-> <<1>>, d |-> <<1>>, e |-> 2]
Half       == [k |-> "fin", neg |-> FALSE, n |-> <<5>>, d |-> <<1>>, e |-> -1]

IsFin(x)   == x.k = "fin"
IsUndef(x) == x.k = "undef"
IsZero(x)  == x.k = "fin" /\ x.n = << >>
IsNum(x)   == x.k \in {"fin", "inf"}

\* powers of ten move from the fraction into the exponent
RECURSIVE StripN(_, _)
StripN(n, e) ==
  IF n # << >> /\ n[1] % 10 = 0
  THEN IF n[1] = 0 THEN StripN(Tail(n), e + 4)
       ELSE StripN(NDivSmall(n, 10), e + 1)
  ELSE <<n, e>>

\* n/d in lowest terms, for small n and d with greatest common divisor g
FinG(neg, n, d, g, e) ==
  [k |-> "fin", neg |-> neg, n |-> NFromInt(n \div g),
   d |-> NFromInt(d \div g), e |-> e]

FinR(neg, n, d, e) ==
  IF Len(n) <= 2 /\ Len(d) <= 2
  THEN FinG(neg, NToInt(n), NToInt(d), IGcd(NToInt(n), NToInt(d)), e)
  ELSE [k |-> "fin", neg |-> neg, n |-> n, d |-> d, e |-> e]

FinS(neg, sn, sd) == FinR(neg, sn[1], sd[1], sn[2] - sd[2])

\* a finite value in reduced form: no power of ten in n or d, and n/d in
\* lowest terms while both are small
Fin(neg, n, d, e) ==
  IF n = << >> THEN Zero ELSE FinS(neg, StripN(n, e), StripN(d, 0))

\* the number i, and the decimal i * 10^e, for an integer i
Dec(i, e) == IF i < 0 THEN Fin(TRUE, NFromInt(-i), N1, e)
             ELSE Fin(FALSE, NFromInt(i), N1, e)
Num(i) == Dec(i, 0)

\* sign of a finite or infinite value: -1, 0, 1
Sgn(x) == IF x.k = "fin" /\ x.n = << >> THEN 0 ELSE IF x.neg THEN -1 ELSE 1

\* -x
RNeg(x) ==
  IF x.k \in {"nan", "undef"} THEN NaN
  ELSE IF IsZero(x) THEN x
  ELSE [x EXCEPT !.neg = ~x.neg]

\* (-1)^xneg a/d + (-1)^yneg b/d, scaled by 10^e, where c compares a to b
FinAddC(xneg, yneg, a, b, d, e, c) ==
  IF xneg = yneg THEN Fin(xneg, NAdd(a, b), d, e)
  ELSE IF c = 0 THEN Zero
  ELSE IF c > 0 THEN Fin(xneg, NSub(a, b), d, e)
  ELSE Fin(yneg, NSub(b, a), d, e)

FinAddS(xneg, yneg, a, b, d, e) ==
  FinAddC(xneg, yneg, a, b, d, e, NCmp(a, b))

\* x + y from the numerators xn, yn of x and y at the common exponent e
FinAddN(x, y, xn, yn, e) ==
  IF x.d = y.d THEN FinAddS(x.neg, y.neg, xn, yn, x.d, e)
  ELSE FinAddS(x.neg, y.neg, NMul(xn, y.d), NMul(yn, x.d), NMul(x.d, y.d), e)

FinAddE(x, y, e) ==
  FinAddN(x, y, NMul(x.n, NPow10(x.e - e)), NMul(y.n, NPow10(y.e - e)), e)

\* x + y for finite x, y
FinAdd(x, y) ==
  IF IsZero(x) THEN y
  ELSE IF IsZero(y) THEN x
  ELSE FinAddE(x, y, IF x.e < y.e THEN x.e ELSE y.e)

\* JavaScript +, on numbers (undefined converts to NaN)
RAdd(x, y) ==
  IF x.k \in {"nan", "undef"} \/ y.k \in {"nan", "undef"} THEN NaN
  ELSE IF x.k = "inf" /\ y.k = "inf"
       THEN (IF x.neg = y.neg THEN x ELSE NaN)
  ELSE IF x.k = "inf" THEN x
  ELSE IF y.k = "inf" THEN y
  ELSE FinAdd(x, y)

\* JavaScript -
RSub(x, y) == RAdd(x, RNeg(y))

\* (-1)^neg * (a/b) * (c/d) * 10^e
FinMul(neg, a, b, c, d, e) ==
  IF b = c THEN Fin(neg, a, d, e)
  ELSE IF d = a THEN Fin(neg, c, b, e)
  ELSE Fin(neg, NMul(a, c), NMul(b, d), e)

\* JavaScript *
RMul(x, y) ==
  IF x.k \in {"nan", "undef"} \/ y.k \in {"nan", "undef"} THEN NaN
  ELSE IF x.k = "inf" \/ y.k = "inf"
       THEN (IF IsZero(x) \/ IsZero(y) THEN NaN ELSE Inf(x.neg # y.neg))
  ELSE IF IsZero(x) \/ IsZero(y) THEN Zero
  ELSE FinMul(x.neg # y.neg, x.n, x.d, y.n, y.d, x.e + y.e)

\* JavaScript /: a zero divisor gives an infinity, or NaN for 0/0
RDiv(x, y) ==
  IF x.k \in {"nan", "undef"} \/ y.k \in {"nan", "undef"} THEN NaN
  ELSE IF x.k = "inf"
       THEN (IF y.k = "inf" THEN NaN ELSE Inf(x.neg # y.neg))
  ELSE IF y.k = "inf" THEN Zero
  ELSE IF IsZero(y) THEN (IF IsZero(x) THEN NaN ELSE Inf(x.neg))
  ELSE IF IsZero(x) THEN Zero
  ELSE FinMul(x.neg # y.neg, x.n, x.d, y.d, y.n, x.e - y.e)

\* -1, 0, 1 as x < y, x = y, x > y, for finite or infinite x, y
RCmp(x, y) ==
  IF x.k = "inf" /\ y.k = "inf" /\ x.neg = y.neg THEN 0
  ELSE Sgn(RSub(x, y))

\* JavaScript >, <, >=, <= and ===: false as soon as an operand is NaN or
\* undefined
RGt(x, y) == IsNum(x) /\ IsNum(y) /\ RCmp(x, y) = 1
RLt(x, y) == IsNum(x) /\ IsNum(y) /\ RCmp(x, y) = -1
RGe(x, y) == IsNum(x) /\ IsNum(y) /\ RCmp(x, y) >= 0
RLe(x, y) == IsNum(x) /\ IsNum(y) /\ RCmp(x, y) <= 0
REq(x, y) == IsNum(x) /\ IsNum(y) /\ RCmp(x, y) = 0

\* the same value: equal numbers, or both NaN, or both undefined
Same(x, y) ==
  IF IsNum(x) /\ IsNum(y) THEN RCmp(x, y) = 0 ELSE x.k = y.k

\* Math.max
MathMax(x, y) ==
  IF ~IsNum(x) \/ ~IsNum(y) THEN NaN
  ELSE IF RCmp(x, y) >= 0 THEN x ELSE y

\* the integer value of a finite integral x
ToInt(x) ==
  IF x.neg THEN -NToInt(NMul(x.n, NPow10(x.e)))
  ELSE NToInt(NMul(x.n, NPow10(x.e)))

\* the largest r in lo..hi with r * r <= m
RECURSIVE ISqrtIn(_, _, _)
ISqrtMid(m, lo, hi, mid) ==
  IF mid * mid <= m THEN ISqrtIn(m, mid, hi) ELSE ISqrtIn(m, lo, mid - 1)
ISqrtIn(m, lo, hi) ==
  IF lo >= hi THEN lo ELSE ISqrtMid(m, lo, hi, (lo + hi + 1) \div 2)

IsSquareInt(m, r) == r * r = m

\* the root of a small integer that is a perfect square
ISqrt(m) == CHOOSE r \in {ISqrtIn(m, 0, 10 ^ 4)} : r * r = m

\* the numerator of a finite x taken at an even exponent
EvenN(x) == IF x.e % 2 = 0 THEN x.n ELSE NMul(x.n, <<10>>)

\* whether the finite x >= 0 is the square of a fraction
IsSquare(x) ==
  \/ IsZero(x)
  \/ /\ ~x.neg /\ Len(EvenN(x)) <= 2 /\ Len(x.d) <= 2
     /\ IsSquareInt(NToInt(EvenN(x)), ISqrtIn(NToInt(EvenN(x)), 0, 10 ^ 4))
     /\ IsSquareInt(NToInt(x.d), ISqrtIn(NToInt(x.d), 0, 10 ^ 4))

\* Math.sqrt of a finite x >= 0 that is the square of a fraction
Sqrt(x) ==
  IF IsZero(x) THEN Zero
  ELSE Fin(FALSE, NFromInt(ISqrt(NToInt(EvenN(x)))),
           NFromInt(ISqrt(NToInt(x.d))),
           (IF x.e % 2 = 0 THEN x.e ELSE x.e - 1) \div 2)

RECURSIVE IPow(_, _)
IPow(b, k) == IF k = 0 THEN One ELSE RMul(IPow(b, k - 1), b)

\* b^(h/2) for h >= 0
HalfPow(b, h) ==
  IF h % 2 = 0 THEN IPow(b, h \div 2)
  ELSE IF Sgn(b) < 0 THEN NaN
  ELSE IF b.k = "inf" THEN b
  ELSE RMul(IPow(b, h \div 2), Sqrt(b))

PowH(b, h) ==
  IF h >= 0 THEN HalfPow(b, h) ELSE RDiv(One, HalfPow(b, -h))

\* Math.pow(b, x) for an exponent x that is a multiple of 1/2:
\* b^x = b^floor(x) * sqrt(b) for the odd multiples; NaN for a negative base
\* under a fractional exponent
MathPow(b, x) ==
  IF ~IsNum(x) THEN NaN
  ELSE IF IsZero(x) THEN One
  ELSE IF ~IsNum(b) THEN NaN
  ELSE PowH(b, ToInt(RMul(x, Two)))


\* the quotient of naturals a \div b (b > 0), found between lo and hi with
\* lo * b <= a < hi * b
RECURSIVE NDivIn(_, _, _, _)
NDivMid(a, b, lo, hi, mid) ==
  IF NCmp(NMul(mid, b), a) <= 0 THEN NDivIn(a, b, mid, hi)
  ELSE NDivIn(a, b, lo, mid)
NDivIn(a, b, lo, hi) ==
  IF NCmp(NAdd(lo, N1), hi) >= 0 THEN lo
  ELSE NDivMid(a, b, lo, hi, NDivSmall(NAdd(lo, hi), 2))

NDiv(a, b) ==
  IF NCmp(a, b) < 0 THEN << >>
  ELSE NDivIn(a, b, << >>, NPow10(4 * (Len(a) - Len(b) + 1)))

\* floor of n / d for naturals, and the ceiling
NCeilFrom(n, d, q) == IF NCmp(NMul(q, d), n) = 0 THEN q ELSE NAdd(q, N1)
NCeil(n, d) == NCeilFrom(n, d, NDiv(n, d))

\* Math.floor of a finite x = +-(n * 10^e) / d
FloorOf(neg, n, d) ==
  IF neg THEN Fin(TRUE, NCeil(n, d), N1, 0) ELSE Fin(FALSE, NDiv(n, d), N1, 0)
MathFloor(x) ==
  IF ~IsFin(x) THEN x
  ELSE IF x.e >= 0 THEN FloorOf(x.neg, NMul(x.n, NPow10(x.e)), x.d)
  ELSE FloorOf(x.neg, x.n, NMul(x.d, NPow10(-x.e)))

\* Math.round: the nearest integer, a half rounding up
MathRound(x) ==
  IF x.k = "undef" THEN NaN ELSE IF ~IsFin(x) THEN x
  ELSE MathFloor(RAdd(x, Half))

\* ------------------------------------------------------------------------
\* src/src/utils/dcf.ts
\* ------------------------------------------------------------------------
DEFAULT_BASE_REVENUE == 1000000000
DEFAULT_SHARES_OUTSTANDING == 100000000
DEFAULT_MARKET_PRICE == 25

sampleInputs ==
  [revenueCagr |-> Num(15), ebitMargin |-> Num(25), taxRate |-> Num(21),
   capexPercent |-> Num(3), nwcPercent |-> Num(2), terminalGrowth |-> Num(3),
   discountRate |-> Num(10)]

InputFields ==
  {"revenueCagr", "ebitMargin", "taxRate", "capexPercent", "nwcPercent",
   "terminalGrowth", "discountRate"}

\* the numeric fields of DCFCalcOptions; useMidYear is the boolean one
OptionFields ==
  {"baseRevenue", "sharesOutstanding", "marketPrice", "marketCap",
   "fcfLatest", "growthEstimate5Y", "periodYears", "terminalRate", "netDebt",
   "daPercent", "wacc"}

\* options = {}
NoOptions == [f \in OptionFields |-> Undef] @@ [useMidYear |-> "undefined"]

\* a && ...: a number is truthy unless it is 0 or NaN; undefined is falsy
Truthy(x) == x.k = "inf" \/ (x.k = "fin" /\ ~IsZero(x))

\* a ?? b
Nullish(x, y) == IF IsUndef(x) THEN y ELSE x

\* typeof x === 'number'
IsNumberType(x) == ~IsUndef(x)

\* a period resolved with ?? alone: a period of 0 or less is kept
yearsNullish(options) == Nullish(options.periodYears, Num(5))

years(options) ==
  IF Truthy(options.periodYears) /\ RGt(options.periodYears, Zero)
  THEN options.periodYears ELSE Num(5)

\* the FCF-growth path taken when either of its two fields is a number
useFcfPathEither(options) ==
  IsNumberType(options.fcfLatest) \/ IsNumberType(options.growthEstimate5Y)

useFcfPath(options) ==
  IsNumberType(options.fcfLatest) /\ IsNumberType(options.growthEstimate5Y)

\* a price resolved with ||: a price of 0 is replaced by the default
marketPriceOr(options) ==
  IF Truthy(options.marketPrice) THEN options.marketPrice
  ELSE Num(DEFAULT_MARKET_PRICE)

marketPrice(options) == Nullish(options.marketPrice, Num(DEFAULT_MARKET_PRICE))

shares(options) ==
  IF Truthy(options.sharesOutstanding) /\ RGt(options.sharesOutstanding, Zero)
  THEN options.sharesOutstanding
  ELSE IF Truthy(options.marketCap) /\ RGt(marketPrice(options), Zero)
       THEN RDiv(options.marketCap, marketPrice(options))
       ELSE Num(DEFAULT_SHARES_OUTSTANDING)

netDebt(options) == Nullish(options.netDebt, Zero)

daPercent(options) == RDiv(Nullish(options.daPercent, Zero), Hundred)

\* Boolean(options.useMidYear)
useMidYear(options) == options.useMidYear = "true"

\* projectedFCFs[x]: the element at the 0-based index x, undefined when x is
\* not an index of the array
Index(arr, x) ==
  IF \E i \in 1..Len(arr) : REq(x, Num(i - 1))
  THEN arr[CHOOSE i \in 1..Len(arr) : REq(x, Num(i - 1))]
  ELSE Undef

\* the discount exponent of the cash flow at 0-based index i
flowExp(i, midYear) == IF midYear THEN RAdd(Num(i), Half) ELSE Num(i + 1)

\* the discount exponent of the terminal value
\* a terminal exponent that ignores the mid-year convention
terminalExpYearEnd(yrs, midYear) == yrs

terminalExp(yrs, midYear) == IF midYear THEN RSub(yrs, Half) ELSE yrs

\* ---- FCF-growth path ----

\* a projection that emits the cash flow before compounding it
RECURSIVE fcfProjectionLatestFirst(_, _, _, _)
fcfProjectionLatestFirst(fcf, year, yrs, growthRate) ==
  IF RLe(Num(year), yrs)
  THEN <<fcf>> \o fcfProjectionLatestFirst(RMul(fcf, RAdd(One, growthRate)),
                                           year + 1, yrs, growthRate)
  ELSE << >>

\* for (year = 1; year <= years; year++) { fcf = fcf * (1 + growthRate); push }
RECURSIVE fcfProjection(_, _, _, _)
fcfPush(fcf, year, yrs, growthRate) ==
  <<fcf>> \o fcfProjection(fcf, year + 1, yrs, growthRate)
fcfProjection(fcf, year, yrs, growthRate) ==
  IF RLe(Num(year), yrs)
  THEN fcfPush(RMul(fcf, RAdd(One, growthRate)), year, yrs, growthRate)
  ELSE << >>

\* a terminal growth that ignores inputs.terminalGrowth
fcfTerminalGrowthFixed(inputs, options) ==
  RDiv(Nullish(options.terminalRate, Num(3)), Hundred)

fcfTerminalGrowth(inputs, options) ==
  RDiv(Nullish(options.terminalRate, inputs.terminalGrowth), Hundred)

\* a discount rate that ignores options.wacc
fcfDiscountRateNoWacc(inputs, options) == RDiv(inputs.discountRate, Hundred)

fcfDiscountRate(inputs, options) ==
  RDiv(Nullish(options.wacc, inputs.discountRate), Hundred)

\* the Gordon formula without the floor on its denominator
fcfTerminalValueNoFloor(projectedFCFs, terminalGrowth, discountRate) ==
  RDiv(RMul(Index(projectedFCFs, Num(Len(projectedFCFs) - 1)),
            RAdd(One, terminalGrowth)),
       RSub(discountRate, terminalGrowth))

fcfTerminalValue(projectedFCFs, terminalGrowth, discountRate) ==
  RDiv(RMul(Index(projectedFCFs, Num(Len(projectedFCFs) - 1)),
            RAdd(One, terminalGrowth)),
       MathMax(RSub(discountRate, terminalGrowth), Dec(2, -2)))

RECURSIVE fcfPvLoop(_, _, _, _, _)
fcfPvLoop(projectedFCFs, i, pv, discountRate, midYear) ==
  IF i < Len(projectedFCFs)
  THEN fcfPvLoop(projectedFCFs, i + 1,
                 RAdd(pv, RDiv(projectedFCFs[i + 1],
                               MathPow(RAdd(One, discountRate),
                                       flowExp(i, midYear)))),
                 discountRate, midYear)
  ELSE pv

fcfEnterpriseValue(projectedFCFs, terminalValue, discountRate, yrs, midYear) ==
  RAdd(fcfPvLoop(projectedFCFs, 0, Zero, discountRate, midYear),
       RDiv(terminalValue,
            MathPow(RAdd(One, discountRate), terminalExp(yrs, midYear))))

fcfIntrinsicValue(impliedMarketCap, shrs) ==
  IF RGt(shrs, Zero) THEN RDiv(impliedMarketCap, shrs) ELSE Zero

fcfMarginOfSafety(intrinsicValue, price) ==
  IF RGt(price, Zero)
  THEN RMul(RDiv(RSub(intrinsicValue, price), price), Hundred)
  ELSE Zero

\* return { intrinsicValue, enterpriseValue, impliedMarketCap, marginOfSafety,
\*          projectedFCFs }
fcfResult(projectedFCFs, enterpriseValue, impliedMarketCap, intrinsicValue, price) ==
  [intrinsicValue |-> intrinsicValue, enterpriseValue |-> enterpriseValue,
   impliedMarketCap |-> impliedMarketCap,
   marginOfSafety |-> fcfMarginOfSafety(intrinsicValue, price),
   projectedFCFs |-> projectedFCFs]

fcfPerShare(projectedFCFs, enterpriseValue, impliedMarketCap, options) ==
  fcfResult(projectedFCFs, enterpriseValue, impliedMarketCap,
            fcfIntrinsicValue(impliedMarketCap, shares(options)),
            marketPrice(options))

fcfEquity(projectedFCFs, enterpriseValue, options) ==
  fcfPerShare(projectedFCFs, enterpriseValue,
              RSub(enterpriseValue, netDebt(options)), options)

fcfValuation(projectedFCFs, terminalGrowth, discountRate, options) ==
  fcfEquity(projectedFCFs,
            fcfEnterpriseValue(projectedFCFs,
                               fcfTerminalValue(projectedFCFs, terminalGrowth,
                                                discountRate),
                               discountRate, years(options),
                               useMidYear(options)),
            options)

\* an FCF-growth path that grows the cash flow by the revenue CAGR
fcfPathMixed(inputs, options) ==
  fcfValuation(fcfProjection(options.fcfLatest, 1, years(options),
                             RDiv(inputs.revenueCagr, Hundred)),
               fcfTerminalGrowth(inputs, options),
               fcfDiscountRate(inputs, options), options)

\* the branch if (useFcfPath) { ... }
fcfPath(inputs, options) ==
  fcfValuation(fcfProjection(options.fcfLatest, 1, years(options),
                             RDiv(options.growthEstimate5Y, Hundred)),
               fcfTerminalGrowth(inputs, options),
               fcfDiscountRate(inputs, options), options)

\* ---- revenue-driven path ----

\* fcf = nopat + da - capex - nwcChange, with nopat = ebit - tax and
\* nwcChange = (currentRevenue - prevRevenue) * nwcPercent / 100
revFcfFrom(currentRevenue, ebit, prevRevenue, inputs, da) ==
  RSub(RSub(RAdd(RSub(ebit, RMul(ebit, RDiv(inputs.taxRate, Hundred))),
                 RMul(currentRevenue, da)),
            RMul(currentRevenue, RDiv(inputs.capexPercent, Hundred))),
       RMul(RSub(currentRevenue, prevRevenue),
            RDiv(inputs.nwcPercent, Hundred)))

\* a cash flow whose working-capital charge is taken on the whole revenue
revFcfAbsNwc(currentRevenue, inputs, da) ==
  revFcfFrom(currentRevenue,
             RMul(currentRevenue, RDiv(inputs.ebitMargin, Hundred)),
             Zero, inputs, da)

\* the cash flow of one projection year, from the revenue already compounded
revFcf(currentRevenue, inputs, da) ==
  revFcfFrom(currentRevenue,
             RMul(currentRevenue, RDiv(inputs.ebitMargin, Hundred)),
             RDiv(currentRevenue,
                  RAdd(One, RDiv(inputs.revenueCagr, Hundred))),
             inputs, da)

\* for (year = 1; year <= years; year++) { currentRevenue *= ...; push(fcf) }
RECURSIVE revProjection(_, _, _, _, _)
revPush(currentRevenue, year, yrs, inputs, da) ==
  <<revFcf(currentRevenue, inputs, da)>>
  \o revProjection(currentRevenue, year + 1, yrs, inputs, da)
revProjection(currentRevenue, year, yrs, inputs, da) ==
  IF RLe(Num(year), yrs)
  THEN revPush(RMul(currentRevenue,
                    RAdd(One, RDiv(inputs.revenueCagr, Hundred))),
               year, yrs, inputs, da)
  ELSE << >>

\* a discount rate fixed at 21 %
revDiscountRateFixed(inputs, options) == Dec(21, -2)

\* a discount rate that ignores options.wacc
revDiscountRateNoWacc(inputs, options) == RDiv(inputs.discountRate, Hundred)

revDiscountRate(inputs, options) ==
  RDiv(Nullish(options.wacc, inputs.discountRate), Hundred)

\* a terminal value guarded by the 0.001 floor alone
revTerminalValueInnerOnly(projectedFCFs, inputs, discountRate, yrs) ==
  RDiv(RMul(Index(projectedFCFs, RSub(yrs, One)),
            RAdd(One, RDiv(inputs.terminalGrowth, Hundred))),
       MathMax(RSub(discountRate, RDiv(inputs.terminalGrowth, Hundred)),
               Dec(1, -3)))

\* a terminal value with no floor under its denominator
revTerminalValueNoFloor(projectedFCFs, inputs, discountRate, yrs) ==
  RDiv(RMul(Index(projectedFCFs, RSub(yrs, One)),
            RAdd(One, RDiv(inputs.terminalGrowth, Hundred))),
       RSub(discountRate, RDiv(inputs.terminalGrowth, Hundred)))

\* terminalFCF / Math.max(Math.max(discountMinusGrowth, 0.001), 0.02)
revTerminalValue(projectedFCFs, inputs, discountRate, yrs) ==
  RDiv(RMul(Index(projectedFCFs, RSub(yrs, One)),
            RAdd(One, RDiv(inputs.terminalGrowth, Hundred))),
       MathMax(MathMax(RSub(discountRate,
                            RDiv(inputs.terminalGrowth, Hundred)),
                       Dec(1, -3)),
               Dec(2, -2)))

RECURSIVE revPvLoop(_, _, _, _, _)
revPvLoop(projectedFCFs, i, pv, discountRate, midYear) ==
  IF i < Len(projectedFCFs)
  THEN revPvLoop(projectedFCFs, i + 1,
                 RAdd(pv, RDiv(projectedFCFs[i + 1],
                               MathPow(RAdd(One, discountRate),
                                       flowExp(i, midYear)))),
                 discountRate, midYear)
  ELSE pv

revEnterpriseValue(projectedFCFs, terminalValue, discountRate, yrs, midYear) ==
  RAdd(revPvLoop(projectedFCFs, 0, Zero, discountRate, midYear),
       RDiv(terminalValue,
            MathPow(RAdd(One, discountRate), terminalExp(yrs, midYear))))

\* a per-share value with no guard on the share count
revIntrinsicValueUnguarded(impliedMarketCap, shrs) ==
  RDiv(impliedMarketCap, shrs)

revIntrinsicValue(impliedMarketCap, shrs) ==
  IF RGt(shrs, Zero) THEN RDiv(impliedMarketCap, shrs) ELSE Zero

\* a margin of safety as a fraction, not in percent
revMarginOfSafetyFraction(intrinsicValue, price) ==
  IF RGt(price, Zero) THEN RDiv(RSub(intrinsicValue, price), price) ELSE Zero

\* a margin of safety with no guard on the price
revMarginOfSafetyUnguarded(intrinsicValue, price) ==
  RMul(RDiv(RSub(intrinsicValue, price), price), Hundred)

revMarginOfSafety(intrinsicValue, price) ==
  IF RGt(price, Zero)
  THEN RMul(RDiv(RSub(intrinsicValue, price), price), Hundred)
  ELSE Zero

revResult(projectedFCFs, enterpriseValue, impliedMarketCap, intrinsicValue, price) ==
  [intrinsicValue |-> intrinsicValue, enterpriseValue |-> enterpriseValue,
   impliedMarketCap |-> impliedMarketCap,
   marginOfSafety |-> revMarginOfSafety(intrinsicValue, price),
   projectedFCFs |-> projectedFCFs]

revPerShare(projectedFCFs, enterpriseValue, impliedMarketCap, options) ==
  revResult(projectedFCFs, enterpriseValue, impliedMarketCap,
            revIntrinsicValue(impliedMarketCap, shares(options)),
            marketPrice(options))

\* an equity bridge that adds net debt
revEquityAdded(projectedFCFs, enterpriseValue, options) ==
  revPerShare(projectedFCFs, enterpriseValue,
              RAdd(enterpriseValue, netDebt(options)), options)

revEquity(projectedFCFs, enterpriseValue, options) ==
  revPerShare(projectedFCFs, enterpriseValue,
              RSub(enterpriseValue, netDebt(options)), options)

revValuation(projectedFCFs, inputs, discountRate, options) ==
  revEquity(projectedFCFs,
            revEnterpriseValue(projectedFCFs,
                               revTerminalValue(projectedFCFs, inputs,
                                                discountRate, years(options)),
                               discountRate, years(options),
                               useMidYear(options)),
            options)

\* the fallback after the if (useFcfPath) branch
revenuePath(inputs, options) ==
  revValuation(revProjection(Nullish(options.baseRevenue,
                                     Num(DEFAULT_BASE_REVENUE)),
                             1, years(options), inputs, daPercent(options)),
               inputs, revDiscountRate(inputs, options), options)

calculateDCF(inputs, options) ==
  IF useFcfPath(options) THEN fcfPath(inputs, options)
  ELSE revenuePath(inputs, options)

\* ---- generateSensitivityData ----

center(baseInputs, options) == Nullish(options.wacc, baseInputs.discountRate)

\* the five rates around the centre, not rounded
discountRatesUnrounded(c) ==
  <<RSub(c, Two), RSub(c, One), c, RAdd(c, One), RAdd(c, Two)>>

\* the five rates from the centre upwards
discountRatesFromCenter(c) ==
  <<MathRound(c), MathRound(RAdd(c, One)), MathRound(RAdd(c, Two)),
    MathRound(RAdd(c, Num(3))), MathRound(RAdd(c, Num(4)))>>

\* [center - 2, center - 1, center, center + 1, center + 2].map(Math.round)
discountRates(c) ==
  <<MathRound(RSub(c, Two)), MathRound(RSub(c, One)), MathRound(c),
    MathRound(RAdd(c, One)), MathRound(RAdd(c, Two))>>

terminalGrowthRates == <<Num(1), Dec(15, -1), Num(2), Dec(25, -1), Num(3)>>

\* the options are passed through whole
restKeepsOverrides(options) == options

\* only wacc is taken out of the options
restKeepsTerminalRate(options) == [options EXCEPT !.wacc = Undef]

\* const { wacc, terminalRate, ...rest } = options
rest(options) == [options EXCEPT !.wacc = Undef, !.terminalRate = Undef]

\* Math.round(calculateDCF({...baseInputs, discountRate: dr,
\*                          terminalGrowth: tg}, rest).intrinsicValue)
cell(baseInputs, restOptions, dr, tg) ==
  MathRound(calculateDCF([baseInputs EXCEPT !.discountRate = dr,
                                            !.terminalGrowth = tg],
                         restOptions).intrinsicValue)

\* for (const tg of terminalGrowthRates) row.push(...)
row(baseInputs, restOptions, dr) ==
  [j \in 1..Len(terminalGrowthRates) |->
     cell(baseInputs, restOptions, dr, terminalGrowthRates[j])]

\* for (const dr of discountRates) values.push(row)
values(baseInputs, restOptions, drs) ==
  [i \in 1..Len(drs) |-> row(baseInputs, restOptions, drs[i])]

\* return { discountRates, terminalGrowthRates, values }
sensitivityFor(baseInputs, options, drs) ==
  [discountRates |-> drs, terminalGrowthRates |-> terminalGrowthRates,
   values |-> values(baseInputs, rest(options), drs)]

generateSensitivityData(baseInputs, options) ==
  sensitivityFor(baseInputs, options,
                 discountRates(center(baseInputs, options)))

\* ------------------------------------------------------------------------
\* The caller: it holds the assumptions and the options, changes one field
\* at a time and recomputes the results (DCFModule's useMemo over
\* calculateDCF(inputs, calcOptions)).
\* ------------------------------------------------------------------------
VARIABLES inputs, options, results, calls, sensitivityData

\* the state of a mounted DCFModule component (useState and useRef cells,
\* pending timeouts, fetch calls and animation frames)
VARIABLES component, ticker, fetchedInputs, companyMeta, isLoading, error,
          handle, timers, inFlight, fetches,
          animatedValue, rafIdRef, frames, nextId

uiVars ==
  <<component, ticker, fetchedInputs, companyMeta, isLoading, error,
    handle, timers, inFlight, fetches, animatedValue, rafIdRef, frames,
    nextId>>

\* the objects of the JavaScript heap in creation order (an address is an
\* index), the addresses of the caller's inputs and options objects, and
\* the addresses of the objects the engine has returned
VARIABLES heap, args, returned

heapVars == <<heap, args, returned>>

vars == <<inputs, options, results, calls, sensitivityData, uiVars, heapVars>>

\* JavaScript null, and null in a cell that holds a timer id or the id of
\* an animation frame (a frame id is the pair of its loop and its number)
Null == [k |-> "null"]
NullId == 0
NullFrame == <<0, 0>>

\* no component is mounted in the runs that call the engine directly
Unmounted ==
  /\ component = "none" /\ ticker = << >>
  /\ fetchedInputs = Null /\ companyMeta = Null
  /\ isLoading = FALSE /\ error = Null
  /\ handle = NullId /\ timers = {} /\ inFlight = {} /\ fetches = << >>
  /\ animatedValue = Zero /\ rafIdRef = NullFrame /\ frames = {} /\ nextId = 1

\* the heap is not followed in the runs that follow values
NoHeap == heap = << >> /\ args = << >> /\ returned = << >>

\* how many changes the caller makes in a run
MaxCalls == 1

\* the values a field of DCFInputs is set to (percentages)
InputValues(f) ==
  CASE f = "revenueCagr"    -> {Num(15), Num(0), Num(-100)}
    [] f = "ebitMargin"     -> {Num(25), Num(0)}
    [] f = "taxRate"        -> {Num(21), Num(0)}
    [] f = "capexPercent"   -> {Num(3), Num(0)}
    [] f = "nwcPercent"     -> {Num(2), Num(0)}
    [] f = "terminalGrowth" -> {Num(3), Num(4), Num(5), Num(9), Num(10)}
    [] f = "discountRate"   -> {Num(10), Num(5), Num(21), Num(44), Num(-100)}

\* the values a numeric field of DCFCalcOptions is set to, besides undefined
OptionValues(f) ==
  CASE f = "baseRevenue"       -> {Num(0), Num(2000)}
    [] f = "sharesOutstanding" -> {Num(0), Num(50), Num(-10)}
    [] f = "marketPrice"       -> {Num(0), Num(10), Num(-5)}
    [] f = "marketCap"         -> {Num(0), Num(1000), Num(-1000)}
    [] f = "fcfLatest"         -> {Num(0), Num(1000), Num(-500)}
    [] f = "growthEstimate5Y"  -> {Num(0), Num(10)}
    [] f = "periodYears"       -> {Num(0), Num(-1), Num(1), Num(2), Num(3),
                                   Dec(25, -1)}
    [] f = "terminalRate"      -> {Num(2), Num(5)}
    [] f = "netDebt"           -> {Num(100), Num(-100)}
    [] f = "daPercent"         -> {Num(3)}
    [] f = "wacc"              -> {Num(9), Num(44)}

\* a whole number
IsWhole(x) == IsFin(x) /\ x.d = <<1>> /\ x.e >= 0

HasRoot(b) == Sgn(b) < 0 \/ IsSquare(b)

\* Math.pow with a fractional exponent is modelled where its value is a
\* fraction: when an exponent is fractional (the mid-year convention, or a
\* fractional periodYears), the discount rate r in use has a rational
\* sqrt(1 + r) (or a negative 1 + r, which gives NaN)
Representable(inp, opt) ==
  (useMidYear(opt) \/ ~IsWhole(years(opt))) =>
    HasRoot(RAdd(One, RDiv(Nullish(opt.wacc, inp.discountRate), Hundred)))

\* discount rate and terminal growth both 5
flatInputs ==
  [sampleInputs EXCEPT !.discountRate = Num(5), !.terminalGrowth = Num(5)]

\* a discount rate of 21 %: 1.21 has the square root 1.1
midInputs == [sampleInputs EXCEPT !.discountRate = Num(21)]

\* two years under the mid-year convention, with no rate override
midOptions == [NoOptions EXCEPT !.periodYears = Num(2), !.useMidYear = "true"]

fcfOptions ==
  [NoOptions EXCEPT !.fcfLatest = Num(1000), !.growthEstimate5Y = Num(10)]

\* a company's data on the revenue-driven path, as DCFModule passes it
companyOptions ==
  [NoOptions EXCEPT !.baseRevenue = Num(2000), !.sharesOutstanding = Num(50),
                    !.marketPrice = Num(10), !.marketCap = Num(1000),
                    !.periodYears = Num(2), !.terminalRate = Num(2),
                    !.netDebt = Num(100), !.daPercent = Num(3),
                    !.wacc = Num(44), !.useMidYear = "true"]

\* a company's data on the FCF-growth path
companyFcfOptions ==
  [NoOptions EXCEPT !.fcfLatest = Num(1000), !.growthEstimate5Y = Num(10),
                    !.sharesOutstanding = Num(50), !.marketPrice = Num(10),
                    !.periodYears = Num(3), !.terminalRate = Num(2),
                    !.netDebt = Num(-100), !.wacc = Num(44),
                    !.useMidYear = "true"]

\* the calls a run starts from
Starts ==
  { <<sampleInputs, NoOptions>>, <<sampleInputs, fcfOptions>>,
    <<midInputs, companyOptions>>, <<midInputs, companyFcfOptions>>,
    <<flatInputs, NoOptions>>, <<midInputs, midOptions>> }

\* no grid is computed in the runs that call calculateDCF alone
NoSensitivity ==
  [discountRates |-> << >>, terminalGrowthRates |-> << >>, values |-> << >>]

Init ==
  /\ \E s \in Starts : inputs = s[1] /\ options = s[2]
  /\ results = calculateDCF(inputs, options)
  /\ calls = 0
  /\ sensitivityData = NoSensitivity
  /\ Unmounted
  /\ NoHeap

SetInput(f, v) ==
  /\ calls < MaxCalls
  /\ inputs' = [inputs EXCEPT ![f] = v]
  /\ Representable(inputs', options)
  /\ results' = calculateDCF(inputs', options)
  /\ calls' = calls + 1
  /\ UNCHANGED <<options, sensitivityData, uiVars, heapVars>>

SetOption(f, v) ==
  /\ calls < MaxCalls
  /\ options' = [options EXCEPT ![f] = v]
  /\ Representable(inputs, options')
  /\ results' = calculateDCF(inputs, options')
  /\ calls' = calls + 1
  /\ UNCHANGED <<inputs, sensitivityData, uiVars, heapVars>>

SetUseMidYear(b) ==
  /\ calls < MaxCalls
  /\ options' = [options EXCEPT !.useMidYear = b]
  /\ Representable(inputs, options')
  /\ results' = calculateDCF(inputs, options')
  /\ calls' = calls + 1
  /\ UNCHANGED <<inputs, sensitivityData, uiVars, heapVars>>

Next ==
  \/ \E f \in InputFields : \E v \in InputValues(f) : SetInput(f, v)
  \/ \E f \in OptionFields : \E v \in OptionValues(f) \cup {Undef} : SetOption(f, v)
  \/ \E b \in {"undefined", "true", "false"} : SetUseMidYear(b)

Spec == Init /\ [][Next]_vars

\* ------------------------------------------------------------------------
\* The caller that also draws the sensitivity grid: results and
\* sensitivityData are both recomputed from inputs and options.  The grid
\* evaluates five consecutive discount rates, so it is modelled for year-end
\* discounting over a whole number of years.
\* ------------------------------------------------------------------------
SensRepresentable(opt) == ~useMidYear(opt) /\ IsWhole(years(opt))

\* a discount rate of 9.5 %
halfInputs == [sampleInputs EXCEPT !.discountRate = Dec(95, -1)]

SensRevenueOptions ==
  [NoOptions EXCEPT !.baseRevenue = Num(2000), !.sharesOutstanding = Num(50),
                    !.periodYears = Num(2)]

SensFcfOptions ==
  [NoOptions EXCEPT !.fcfLatest = Num(1000), !.growthEstimate5Y = Num(10),
                    !.sharesOutstanding = Num(50), !.periodYears = Num(2)]

\* a WACC of 3 %: the rates 1..5 meet the terminal-value floor
lowRateOptions(o) == [o EXCEPT !.wacc = Num(3)]

\* a company without free cash flow, both overrides set
zeroFcfOptions ==
  [SensFcfOptions EXCEPT !.fcfLatest = Num(0), !.wacc = Num(9),
                         !.terminalRate = Num(3)]

SensStarts ==
  { <<i, [o EXCEPT !.wacc = w, !.terminalRate = t, !.marketPrice = m]>> :
      i \in {sampleInputs, halfInputs},
      o \in {SensRevenueOptions, SensFcfOptions},
      w \in {Undef, Num(9)}, t \in {Undef, Num(2)}, m \in {Undef, Num(10)} }
    \cup { <<sampleInputs, NoOptions>>,
           <<sampleInputs, lowRateOptions(SensRevenueOptions)>>,
           <<sampleInputs, lowRateOptions(SensFcfOptions)>>,
           <<sampleInputs, zeroFcfOptions>> }

SensInputValues(f) ==
  CASE f = "discountRate" -> {Num(12)}
    [] OTHER              -> {}

SensOptionValues(f) ==
  CASE f = "wacc"         -> {Dec(75, -1)}
    [] f = "periodYears"  -> {Num(1), Num(3)}
    [] f = "terminalRate" -> {Num(3)}
    [] OTHER              -> {}

SensInit ==
  /\ \E s \in SensStarts : inputs = s[1] /\ options = s[2]
  /\ results = calculateDCF(inputs, options)
  /\ sensitivityData = generateSensitivityData(inputs, options)
  /\ calls = 0
  /\ Unmounted
  /\ NoHeap

SensSetInput(f, v) ==
  /\ calls < MaxCalls
  /\ inputs' = [inputs EXCEPT ![f] = v]
  /\ results' = calculateDCF(inputs', options)
  /\ sensitivityData' = generateSensitivityData(inputs', options)
  /\ calls' = calls + 1
  /\ UNCHANGED <<options, uiVars, heapVars>>

SensSetOption(f, v) ==
  /\ calls < MaxCalls
  /\ options' = [options EXCEPT ![f] = v]
  /\ SensRepresentable(options')
  /\ results' = calculateDCF(inputs, options')
  /\ sensitivityData' = generateSensitivityData(inputs, options')
  /\ calls' = calls + 1
  /\ UNCHANGED <<inputs, uiVars, heapVars>>

SensNext ==
  \/ \E f \in InputFields : \E v \in SensInputValues(f) : SensSetInput(f, v)
  \/ \E f \in OptionFields : \E v \in SensOptionValues(f) : SensSetOption(f, v)

SensSpec == SensInit /\ [][SensNext]_vars

\* ------------------------------------------------------------------------
\* The DCFModule component.  A ticker is a sequence of characters.
\* ------------------------------------------------------------------------
UpperChar(c) ==
  CASE c = "a" -> "A" [] c = "p" -> "P" [] c = "l" -> "L" [] c = "m" -> "M"
    [] c = "s" -> "S" [] c = "f" -> "F" [] c = "t" -> "T" [] OTHER -> c

\* String.prototype.toUpperCase
toUpperCase(s) == [i \in 1..Len(s) |-> UpperChar(s[i])]

RECURSIVE trimStart(_)
trimStart(s) ==
  IF Len(s) > 0 /\ Head(s) = " " THEN trimStart(Tail(s)) ELSE s

RECURSIVE trimEnd(_)
trimEnd(s) ==
  IF Len(s) > 0 /\ s[Len(s)] = " "
  THEN trimEnd(SubSeq(s, 1, Len(s) - 1)) ELSE s

\* String.prototype.trim
trim(s) == trimEnd(trimStart(s))

\* !ticker || ticker.trim().length < 1
Blank(t) == Len(t) = 0 \/ Len(trim(t)) < 1

\* the fields of CompanyMeta that DCFModule reads
MetaFields ==
  {"price", "sharesOutstanding", "revenueLatest", "fcfLatest",
   "growthEstimate5Y", "periodYears", "terminalRate", "marketCap", "netDebt",
   "wacc", "daPercent"}

NoMeta == [f \in MetaFields |-> Undef]

aaplInputs ==
  [revenueCagr |-> Num(7), ebitMargin |-> Num(30), taxRate |-> Num(18),
   capexPercent |-> Num(3), nwcPercent |-> Dec(15, -1),
   terminalGrowth |-> Num(3), discountRate |-> Num(9)]

aaplMeta ==
  [NoMeta EXCEPT !.price = Dec(22003, -2),
                 !.sharesOutstanding = Dec(155, 8),
                 !.revenueLatest = Dec(383, 9),
                 !.fcfLatest = Dec(110, 9),
                 !.growthEstimate5Y = Dec(65, -1),
                 !.periodYears = Num(5),
                 !.terminalRate = Num(3),
                 !.marketCap = Dec(3410465, 6),
                 !.netDebt = Dec(-52, 9),
                 !.wacc = Dec(65, -3),
                 !.daPercent = Num(3)]

fallbackMeta ==
  [NoMeta EXCEPT !.price = Num(DEFAULT_MARKET_PRICE),
                 !.sharesOutstanding = Num(DEFAULT_SHARES_OUTSTANDING),
                 !.marketCap = RMul(Num(DEFAULT_MARKET_PRICE),
                                    Num(DEFAULT_SHARES_OUTSTANDING)),
                 !.periodYears = Num(5),
                 !.terminalRate = Dec(25, -1),
                 !.daPercent = Num(0)]

\* the response the promise of fetchDCFInputs(ticker) resolves with
fetchDCFInputs(t) ==
  IF toUpperCase(trim(t)) = <<"A", "A", "P", "L">>
  THEN [inputs |-> aaplInputs, meta |-> aaplMeta]
  ELSE [inputs |-> sampleInputs, meta |-> fallbackMeta]

\* companyMeta?.field
MetaGet(meta, f) == IF meta = Null THEN Undef ELSE meta[f]

calcMarketPrice(meta) ==
  IF meta # Null /\ Truthy(meta.price) /\ RGt(meta.price, Zero)
  THEN meta.price
  ELSE IF /\ Truthy(MetaGet(meta, "marketCap"))
          /\ Truthy(MetaGet(meta, "sharesOutstanding"))
          /\ RGt(meta.sharesOutstanding, Zero)
       THEN RDiv(meta.marketCap, meta.sharesOutstanding)
       ELSE Undef

calcWacc(meta) ==
  IF Truthy(MetaGet(meta, "wacc")) THEN RMul(meta.wacc, Hundred) ELSE Undef

calcOptions(meta) ==
  [baseRevenue |-> MetaGet(meta, "revenueLatest"),
   sharesOutstanding |-> MetaGet(meta, "sharesOutstanding"),
   marketPrice |-> calcMarketPrice(meta),
   marketCap |-> MetaGet(meta, "marketCap"),
   fcfLatest |-> MetaGet(meta, "fcfLatest"),
   growthEstimate5Y |-> MetaGet(meta, "growthEstimate5Y"),
   periodYears |-> MetaGet(meta, "periodYears"),
   terminalRate |-> MetaGet(meta, "terminalRate"),
   netDebt |-> MetaGet(meta, "netDebt"),
   daPercent |-> MetaGet(meta, "daPercent"),
   useMidYear |-> "true",
   wacc |-> calcWacc(meta)]

\* fetchedInputs ?? sampleInputs
moduleInputs(fetched) == IF fetched = Null THEN sampleInputs ELSE fetched

\* results.intrinsicValue in the component of part_001.  calcOptions sets
\* useMidYear, and (1 + d)^(i + 0.5) is not a fraction for the rates of the
\* fetched data (10 %, 6.5 %); the animation effect only compares the value
\* with the one of the previous render, so it is represented here by the
\* quantities calculateDCF computes it from.
intrinsicValueOf(inp, opt) ==
  IF useFcfPath(opt)
  THEN [path |-> "fcf", years |-> years(opt), shares |-> shares(opt),
        netDebt |-> netDebt(opt), midYear |-> useMidYear(opt),
        flow |-> <<opt.fcfLatest, opt.growthEstimate5Y>>,
        terminalGrowth |-> fcfTerminalGrowth(inp, opt),
        discountRate |-> fcfDiscountRate(inp, opt)]
  ELSE [path |-> "revenue", years |-> years(opt), shares |-> shares(opt),
        netDebt |-> netDebt(opt), midYear |-> useMidYear(opt),
        flow |-> <<Nullish(opt.baseRevenue, Num(DEFAULT_BASE_REVENUE)),
                   inp.revenueCagr, inp.ebitMargin, inp.taxRate,
                   inp.capexPercent, inp.nwcPercent, daPercent(opt)>>,
        terminalGrowth |-> RDiv(inp.terminalGrowth, Hundred),
        discountRate |-> revDiscountRate(inp, opt)]

\* useMemo(() => calculateDCF(inputs, calcOptions))
moduleResults(inp, opt) == [intrinsicValue |-> intrinsicValueOf(inp, opt)]

\* how many times the user edits the ticker or an assumption in a run
MaxEdits == 2

\* how many frames an animation loop runs at most before progress reaches 1
MaxFrames == 2

\* what the user types into the ticker field
TypedTickers ==
  { << >>, <<" ">>, <<"a", "a", "p", "l">>, <<"a", "a", "p", "l", " ">>,
    <<"m", "s", "f", "t">> }

\* the ticker prop DCFModule is mounted with
InitialTickers == { <<"A", "A", "P", "L">>, <<"S", "A", "M", "P", "L", "E">>, << >> }

\* a cleanup that leaves the pending timeout in place
clearTimeoutNoop(pending, h) == pending

\* clearTimeout(handle)
clearTimeout(pending, h) == { t \in pending : t.id # h }

\* cancelAnimationFrame(id)
cancelAnimationFrame(pending, id) == { f \in pending : f.id # id }

\* requestAnimationFrame(animate) for the loop started by effect run `run`,
\* animating from start to end, with n frames already run
frame(run, start, end, n) ==
  [id |-> <<run, n>>, run |-> run, start |-> start, end |-> end, n |-> n]

\* the animation effect of part_000 and part_001, cleanup included: the
\* pending frame named by rafIdRef is cancelled and a new loop is started
animationEffect(end) ==
  /\ frames' = cancelAnimationFrame(frames, rafIdRef)
                 \cup {frame(nextId, animatedValue, end, 0)}
  /\ rafIdRef' = <<nextId, 0>>
  /\ nextId' = nextId + 1

\* the animation effect of src/src/components/DCFModule.tsx: a new loop is
\* started, nothing is cancelled and no frame id is kept
animationEffectUntracked(end) ==
  /\ frames' = frames \cup {frame(nextId, animatedValue, end, 0)}
  /\ rafIdRef' = rafIdRef
  /\ nextId' = nextId + 1

\* a render of part_001 with the new state: inputs, calcOptions and results
\* are recomputed, and the animation effect runs when results.intrinsicValue
\* is not the one of the previous render
render(fetched, meta) ==
  /\ inputs' = moduleInputs(fetched)
  /\ options' = calcOptions(meta)
  /\ results' = moduleResults(inputs', options')
  /\ IF results'.intrinsicValue = results.intrinsicValue
     THEN UNCHANGED <<frames, rafIdRef, nextId>>
     ELSE animationEffect(results'.intrinsicValue)

\* the fetch effect for a blank ticker (lines 30-35): no timer is set and no
\* cleanup is returned
fetchEffectBlank ==
  /\ fetchedInputs' = Null
  /\ companyMeta' = Null
  /\ error' = Null
  /\ timers' = clearTimeout(timers, handle)
  /\ handle' = NullId
  /\ UNCHANGED isLoading

\* the fetch effect for a ticker (lines 36-52): a timer is set and the
\* cleanup that clears it is returned
fetchEffect(t) ==
  /\ isLoading' = TRUE
  /\ error' = Null
  /\ timers' = clearTimeout(timers, handle) \cup {[id |-> calls' + 1, ticker |-> t]}
  /\ handle' = calls' + 1
  /\ UNCHANGED <<fetchedInputs, companyMeta>>

\* the state after mounting part_001 with a ticker: both effects have run
MountFetching(t) ==
  /\ component = "part_001"
  /\ ticker = t
  /\ fetchedInputs = Null /\ companyMeta = Null /\ error = Null
  /\ inputs = sampleInputs
  /\ options = calcOptions(Null)
  /\ results = moduleResults(inputs, options)
  /\ isLoading = ~Blank(t)
  /\ timers = IF Blank(t) THEN {} ELSE {[id |-> 1, ticker |-> t]}
  /\ handle = IF Blank(t) THEN NullId ELSE 1
  /\ inFlight = {} /\ fetches = << >>
  /\ animatedValue = Zero
  /\ frames = {frame(1, Zero, results.intrinsicValue, 0)}
  /\ rafIdRef = <<1, 0>>
  /\ nextId = 2

\* the state after mounting src/src/components/DCFModule.tsx
MountEditable ==
  /\ component = "DCFModule.tsx"
  /\ ticker = <<"S", "A", "M", "P", "L", "E">>
  /\ fetchedInputs = Null /\ companyMeta = Null /\ error = Null
  /\ inputs = sampleInputs
  /\ options = NoOptions
  /\ results = calculateDCF(sampleInputs, NoOptions)
  /\ isLoading = FALSE
  /\ timers = {} /\ handle = NullId /\ inFlight = {} /\ fetches = << >>
  /\ animatedValue = Zero
  /\ frames = {frame(1, Zero, results.intrinsicValue, 0)}
  /\ rafIdRef = NullFrame
  /\ nextId = 2

UiInit ==
  /\ \/ \E t \in InitialTickers : MountFetching(t)
     \/ MountEditable
  /\ calls = 0
  /\ sensitivityData = NoSensitivity
  /\ NoHeap

\* onChange of the ticker field: setTicker(e.target.value.toUpperCase()),
\* then the render with the new ticker and its fetch effect
TypeTicker(raw) ==
  /\ component = "part_001"
  /\ calls < MaxEdits
  /\ toUpperCase(raw) # ticker
  /\ ticker' = toUpperCase(raw)
  /\ calls' = calls + 1
  /\ IF Blank(ticker') THEN fetchEffectBlank ELSE fetchEffect(ticker')
  /\ render(fetchedInputs', companyMeta')
  /\ UNCHANGED <<heapVars, component, inFlight, fetches, animatedValue, sensitivityData>>

\* the callback of a pending timeout starts: fetchDCFInputs(ticker.trim())
\* is called with the ticker of the render that set the timer
TimerFires(t) ==
  /\ t \in timers
  /\ timers' = timers \ {t}
  /\ inFlight' = inFlight \cup {[id |-> t.id, ticker |-> trim(t.ticker)]}
  /\ fetches' = Append(fetches, trim(t.ticker))
  /\ UNCHANGED <<heapVars, inputs, options, results, calls, sensitivityData, component,
                 ticker, fetchedInputs, companyMeta, isLoading, error, handle,
                 animatedValue, rafIdRef, frames, nextId>>

\* the promise of a started fetch is fulfilled and the callback resumes
\* after its await (lines 41-43, 49), whatever the ticker is by then
FetchSettles(c) ==
  /\ c \in inFlight
  /\ inFlight' = inFlight \ {c}
  /\ fetchedInputs' = fetchDCFInputs(c.ticker).inputs
  /\ companyMeta' = fetchDCFInputs(c.ticker).meta
  /\ isLoading' = FALSE
  /\ render(fetchedInputs', companyMeta')
  /\ UNCHANGED <<heapVars, calls, sensitivityData, component, ticker, error, handle,
                 timers, fetches, animatedValue>>

\* start + (end - start) * easeOutQuart for a progress below 1, kept as the
\* animation it belongs to and the number of the frame; at progress 1 it is
\* end
current(f, done) ==
  IF done THEN f.end ELSE [start |-> f.start, end |-> f.end, frame |-> f.n + 1]

\* a pending animation frame runs animate(): it writes animatedValue and,
\* while progress < 1, requests the next frame.  Date.now() decides whether
\* progress has reached 1.
AnimationFrame(f, done) ==
  /\ f \in frames
  /\ done \/ f.n + 1 < MaxFrames
  /\ animatedValue' = current(f, done)
  /\ frames' = (frames \ {f}) \cup
                (IF done THEN {}
                 ELSE {frame(f.run, f.start, f.end, f.n + 1)})
  /\ rafIdRef' = IF component = "DCFModule.tsx" THEN rafIdRef
                 ELSE IF done THEN NullFrame ELSE <<f.run, f.n + 1>>
  /\ UNCHANGED <<heapVars, inputs, options, results, calls, sensitivityData, component,
                 ticker, fetchedInputs, companyMeta, isLoading, error, handle,
                 timers, inFlight, fetches, nextId>>

\* the values an assumption is edited to in DCFModule.tsx
EditedValues(f) ==
  CASE f = "discountRate"   -> {Num(12)}
    [] f = "terminalGrowth" -> {Num(2)}
    [] OTHER                -> {}

\* handleInputChange of DCFModule.tsx and the effect on [inputs]:
\* calculateDCF(inputs), setResults, and a new animation loop
handleInputChange(f, v) ==
  /\ component = "DCFModule.tsx"
  /\ calls < MaxEdits
  /\ inputs' = [inputs EXCEPT ![f] = v]
  /\ results' = calculateDCF(inputs', NoOptions)
  /\ animationEffectUntracked(results'.intrinsicValue)
  /\ calls' = calls + 1
  /\ UNCHANGED <<heapVars, options, sensitivityData, component, ticker, fetchedInputs,
                 companyMeta, isLoading, error, handle, timers, inFlight,
                 fetches, animatedValue>>

\* resetToSample of DCFModule.tsx
resetToSample ==
  /\ component = "DCFModule.tsx"
  /\ calls < MaxEdits
  /\ inputs # sampleInputs
  /\ inputs' = sampleInputs
  /\ results' = calculateDCF(inputs', NoOptions)
  /\ animationEffectUntracked(results'.intrinsicValue)
  /\ calls' = calls + 1
  /\ UNCHANGED <<heapVars, options, sensitivityData, component, ticker, fetchedInputs,
                 companyMeta, isLoading, error, handle, timers, inFlight,
                 fetches, animatedValue>>

UiNext ==
  \/ \E raw \in TypedTickers : TypeTicker(raw)
  \/ \E t \in timers : TimerFires(t)
  \/ \E c \in inFlight : FetchSettles(c)
  \/ \E f \in frames : \E done \in BOOLEAN : AnimationFrame(f, done)
  \/ \E f \in InputFields : \E v \in EditedValues(f) : handleInputChange(f, v)
  \/ resetToSample

UiSpec == UiInit /\ [][UiNext]_vars

\* ------------------------------------------------------------------------
\* The engine on the heap.  Every object and array literal, spread and
\* Array.map creates a new object; push writes into the array it is called
\* on.  The heap is the sequence of the objects created so far.
\* ------------------------------------------------------------------------
Obj(v) == [t |-> "object", v |-> v]
Arr(s) == [t |-> "array", v |-> s]

\* a new object; its address is Len(h) + 1
alloc(h, o) == Append(h, o)

\* array.push(x) on the array at address a
push(h, a, x) == [h EXCEPT ![a].v = Append(@, x)]

\* const projectedFCFs = []; ... projectedFCFs.push(fcf); ...
\* return { intrinsicValue, ..., projectedFCFs }
allocResult(h, r) ==
  alloc(alloc(h, Arr(r.projectedFCFs)),
        Obj([r EXCEPT !.projectedFCFs = Len(h) + 1]))

\* calculateDCF called with the objects at the addresses i and o
calculateDCFAt(h, i, o) == allocResult(h, calculateDCF(h[i].v, h[o].v))

\* the cell's assumptions are written into baseInputs itself
spreadInputsInPlace(h, b, dr, tg) ==
  alloc([h EXCEPT ![b].v = [@ EXCEPT !.discountRate = dr,
                                     !.terminalGrowth = tg]],
        Obj([h[b].v EXCEPT !.discountRate = dr, !.terminalGrowth = tg]))

\* { ...baseInputs, discountRate: dr, terminalGrowth: tg }
spreadInputs(h, b, dr, tg) ==
  alloc(h, Obj([h[b].v EXCEPT !.discountRate = dr, !.terminalGrowth = tg]))

\* the objects generateSensitivityData creates before its loops, at the
\* addresses Len(h) + 1 .. Len(h) + 5: the array literal around the centre,
\* discountRates, terminalGrowthRates, values and rest
sensPrologue(h, o, c) ==
  alloc(alloc(alloc(alloc(alloc(h,
    Arr(discountRatesUnrounded(c))),
    Arr(discountRates(c))),
    Arr(terminalGrowthRates)),
    Arr(<< >>)),
    Obj(rest(h[o].v)))

\* row.push(Math.round(result.intrinsicValue)), result the newest object
pushRounded(h, rowAddr) ==
  push(h, rowAddr, MathRound(h[Len(h)].v.intrinsicValue))

\* one pass of the inner loop; A is the length of the heap at the call
cellAt(h, b, A, rowAddr, dr, tg) ==
  pushRounded(calculateDCFAt(spreadInputs(h, b, dr, tg), Len(h) + 1, A + 5),
              rowAddr)

\* for (const tg of terminalGrowthRates) { ... }, the first j passes
RECURSIVE rowCells(_, _, _, _, _, _)
rowCells(h, b, A, rowAddr, dr, j) ==
  IF j = 0 THEN h
  ELSE cellAt(rowCells(h, b, A, rowAddr, dr, j - 1), b, A, rowAddr, dr,
              h[A + 3].v[j])

\* const row = []; (inner loop); values.push(row)
rowAt(h, b, A, dr) ==
  push(rowCells(alloc(h, Arr(<< >>)), b, A, Len(h) + 1, dr,
                Len(h[A + 3].v)),
       A + 4, Len(h) + 1)

\* for (const dr of discountRates) { ... }, the first i passes
RECURSIVE rowsAt(_, _, _, _)
rowsAt(h, b, A, i) ==
  IF i = 0 THEN h
  ELSE rowAt(rowsAt(h, b, A, i - 1), b, A, h[A + 2].v[i])

\* return { discountRates, terminalGrowthRates, values }
sensReturn(h, A) ==
  alloc(h, Obj([discountRates |-> A + 2, terminalGrowthRates |-> A + 3,
                values |-> A + 4]))

\* generateSensitivityData called with the objects at the addresses b, o
generateSensitivityDataAt(h, b, o) ==
  sensReturn(rowsAt(sensPrologue(h, o, center(h[b].v, h[o].v)), b, Len(h), 5),
             Len(h))

\* how many calls of the engine a run makes
MaxHeapCalls == 2

\* the options objects of the callers
HeapOptions ==
  { [o EXCEPT !.wacc = w, !.terminalRate = t] :
      o \in {SensRevenueOptions, SensFcfOptions},
      w \in {Undef, Num(9)}, t \in {Undef, Num(2)} }
    \cup {NoOptions, zeroFcfOptions}

\* sampleInputs is the first object of the module; a caller passes
\* sampleInputs itself (as the fallback of fetchDCFInputs does) ...
HeapStartShared(o) ==
  /\ heap = <<Obj(sampleInputs), Obj(o)>>
  /\ args = [inputs |-> 1, options |-> 2]

\* ... or an inputs object of its own
HeapStartOwn(o) ==
  /\ heap = <<Obj(sampleInputs), Obj(halfInputs), Obj(o)>>
  /\ args = [inputs |-> 2, options |-> 3]

HeapInit ==
  /\ \E o \in HeapOptions : HeapStartShared(o) \/ HeapStartOwn(o)
  /\ returned = << >>
  /\ inputs = heap[args.inputs].v
  /\ options = heap[args.options].v
  /\ results = calculateDCF(inputs, options)
  /\ sensitivityData = NoSensitivity
  /\ calls = 0
  /\ Unmounted

CallCalculateDCF ==
  /\ calls < MaxHeapCalls
  /\ heap' = calculateDCFAt(heap, args.inputs, args.options)
  /\ returned' = Append(returned, Len(heap'))
  /\ calls' = calls + 1
  /\ UNCHANGED <<args, inputs, options, results, sensitivityData, uiVars>>

CallGenerateSensitivityData ==
  /\ calls < MaxHeapCalls
  /\ heap' = generateSensitivityDataAt(heap, args.inputs, args.options)
  /\ returned' = Append(returned, Len(heap'))
  /\ calls' = calls + 1
  /\ UNCHANGED <<args, inputs, options, results, sensitivityData, uiVars>>

HeapNext == CallCalculateDCF \/ CallGenerateSensitivityData

HeapSpec == HeapInit /\ [][HeapNext]_vars

\* ------------------------------------------------------------------------
\* Properties of calculateDCF, stated on the caller's state
\* ------------------------------------------------------------------------

\* x / 100
Pct(x) == RDiv(x, Hundred)

\* both fields of the FCF-growth path are present in an options record
BothPresent(opt) == ~IsUndef(opt.fcfLatest) /\ ~IsUndef(opt.growthEstimate5Y)

\* the discount rate and the terminal growth in use, in percent
RateInUse == IF IsUndef(options.wacc) THEN inputs.discountRate ELSE options.wacc
GrowthInUse ==
  IF BothPresent(options) /\ ~IsUndef(options.terminalRate)
  THEN options.terminalRate ELSE inputs.terminalGrowth

\* the projection period is a whole number of years
WholePeriod ==
  IsUndef(options.periodYears) \/ RLe(options.periodYears, Zero)
    \/ IsWhole(options.periodYears)

\* two results agree in every field
ResultsSame(r, q) ==
  /\ Same(r.intrinsicValue, q.intrinsicValue)
  /\ Same(r.enterpriseValue, q.enterpriseValue)
  /\ Same(r.impliedMarketCap, q.impliedMarketCap)
  /\ Same(r.marginOfSafety, q.marginOfSafety)
  /\ Len(r.projectedFCFs) = Len(q.projectedFCFs)
  /\ \A i \in 1..Len(r.projectedFCFs) :
       Same(r.projectedFCFs[i], q.projectedFCFs[i])

\* ---- C1 ----
C1_Seed ==
  IF IsUndef(options.baseRevenue) THEN Num(1000000000) ELSE options.baseRevenue

C1_Da == IF IsUndef(options.daPercent) THEN Zero ELSE options.daPercent

\* the first cash flow of the revenue-driven projection from a seed revenue
C1_FirstRevenueFcf(seed) ==
  LET rev  == RMul(seed, RAdd(One, Pct(inputs.revenueCagr)))
      prev == RDiv(rev, RAdd(One, Pct(inputs.revenueCagr)))
      ebit == RMul(rev, Pct(inputs.ebitMargin))
  IN RSub(RSub(RAdd(RSub(ebit, RMul(ebit, Pct(inputs.taxRate))),
                    RMul(rev, Pct(C1_Da))),
               RMul(rev, Pct(inputs.capexPercent))),
          RMul(RSub(rev, prev), Pct(inputs.nwcPercent)))

\* C1: the FCF-growth path is used exactly when options.fcfLatest and
\* options.growthEstimate5Y are both present, and then the first projected
\* cash flow is fcfLatest * (1 + growthEstimate5Y / 100); in every other case
\* the projection is the revenue-driven one, seeded from options.baseRevenue
\* or, when absent, from 1,000,000,000.
C1_PathSelection ==
  /\ Len(results.projectedFCFs) >= 1
  /\ IF BothPresent(options)
     THEN Same(results.projectedFCFs[1],
               RMul(options.fcfLatest,
                    RAdd(One, Pct(options.growthEstimate5Y))))
     ELSE Same(results.projectedFCFs[1], C1_FirstRevenueFcf(C1_Seed))

\* exactly one of the two fields is present and the revenue-driven cash
\* flow is returned
C1_Witness ==
  /\ ~IsUndef(options.fcfLatest) /\ IsUndef(options.growthEstimate5Y)
  /\ IsFin(results.projectedFCFs[1])
  /\ Same(results.projectedFCFs[1], C1_FirstRevenueFcf(Num(1000000000)))

\* ---- C2 ----
C2_RevenueFields ==
  {"revenueCagr", "ebitMargin", "taxRate", "capexPercent", "nwcPercent"}

\* a step that changes nothing but fields of the revenue-driven path
C2_RevenueFieldsStep ==
  /\ \A f \in InputFields \ C2_RevenueFields : inputs'[f] = inputs[f]
  /\ \A f \in OptionFields \ {"baseRevenue", "daPercent"} :
       options'[f] = options[f]
  /\ options'.useMidYear = options.useMidYear

\* a step that changes nothing but fcfLatest or growthEstimate5Y
C2_FcfFieldsStep ==
  /\ inputs' = inputs
  /\ \A f \in OptionFields \ {"fcfLatest", "growthEstimate5Y"} :
       options'[f] = options[f]
  /\ options'.useMidYear = options.useMidYear

\* C2: no partial mixing. While the FCF-growth path is selected, a change to
\* revenueCagr, ebitMargin, taxRate, capexPercent, nwcPercent, baseRevenue or
\* daPercent leaves every field of the results as it was; while the
\* revenue-driven path is selected, a change to fcfLatest or growthEstimate5Y
\* leaves every field of the results as it was.
C2_NoMixing ==
  [][ /\ (BothPresent(options) /\ BothPresent(options') /\ C2_RevenueFieldsStep)
           => ResultsSame(results, results')
      /\ (~BothPresent(options) /\ ~BothPresent(options') /\ C2_FcfFieldsStep)
           => ResultsSame(results, results') ]_vars

\* the FCF-growth path is selected and a revenue assumption has been changed
C2_Witness ==
  /\ calls >= 1
  /\ BothPresent(options)
  /\ \E f \in C2_RevenueFields : inputs[f] # sampleInputs[f]

\* ---- C3 ----
\* C3: projectedFCFs has as many entries as periodYears when that is a
\* positive whole number, on both paths, and 5 entries when periodYears is
\* absent or <= 0.
C3_ProjectionLength ==
  /\ (IsUndef(options.periodYears) \/ RLe(options.periodYears, Zero))
       => Len(results.projectedFCFs) = 5
  /\ (RGt(options.periodYears, Zero) /\ IsWhole(options.periodYears))
       => Same(Num(Len(results.projectedFCFs)), options.periodYears)

\* a three-year projection on the FCF-growth path
C3_Witness ==
  /\ BothPresent(options)
  /\ Same(options.periodYears, Num(3))
  /\ Len(results.projectedFCFs) = 3

\* ---- C4 ----
C4_Example == inputs = sampleInputs /\ options = NoOptions

\* year-end present value of five cash flows at 10 % with a terminal value
\* growing at 3 %
C4_EnterpriseValue(p) ==
  LET df(t) == MathPow(Dec(11, -1), Num(t))
  IN RAdd(RAdd(RAdd(RAdd(RAdd(RDiv(p[1], df(1)), RDiv(p[2], df(2))),
                              RDiv(p[3], df(3))),
                         RDiv(p[4], df(4))),
                    RDiv(p[5], df(5))),
          RDiv(RDiv(RMul(p[5], Dec(103, -2)), Dec(7, -2)), df(5)))

C4_Rest ==
  /\ Len(results.projectedFCFs) = 5
  /\ Same(results.enterpriseValue, C4_EnterpriseValue(results.projectedFCFs))
  /\ Same(results.impliedMarketCap, results.enterpriseValue)
  /\ Same(results.intrinsicValue,
          RDiv(results.impliedMarketCap, Num(100000000)))
  /\ Same(results.marginOfSafety,
          RMul(RDiv(RSub(results.intrinsicValue, Num(25)), Num(25)), Hundred))

\* C4 as stated: for the sample inputs and options {} the first projected
\* cash flow is 1.90125e8.
C4_Original ==
  C4_Example =>
    /\ Same(results.projectedFCFs[1], Num(190125000))
    /\ C4_Rest

\* C4: for the sample inputs and options {} the revenue-driven path is taken
\* with base revenue 1e9, no D&A add-back and year-end discounting; the first
\* projected cash flow is 1.89625e8 (NOPAT 2.27125e8 - CapEx 3.45e7 -
\* delta-NWC 3e6); the margin of safety is computed with price 25 and
\* 100,000,000 shares.
C4_Amended ==
  C4_Example =>
    /\ Same(results.projectedFCFs[1],
            RSub(RSub(Num(227125000), Num(34500000)), Num(3000000)))
    /\ Same(results.projectedFCFs[1], Num(189625000))
    /\ C4_Rest

C4_Witness == C4_Example /\ Same(results.projectedFCFs[1], Num(189625000))

\* ---- C5 ----
C5_Price ==
  IF IsUndef(options.marketPrice) THEN Num(25) ELSE options.marketPrice

\* the share count of the three tiers, a market cap of 0 counting as provided
C5_Shares ==
  IF ~IsUndef(options.sharesOutstanding) /\ RGt(options.sharesOutstanding, Zero)
  THEN options.sharesOutstanding
  ELSE IF ~IsUndef(options.marketCap) /\ RGt(C5_Price, Zero)
       THEN RDiv(options.marketCap, C5_Price)
       ELSE Num(100000000)

\* C5 as stated: the share count is sharesOutstanding when provided and > 0;
\* otherwise marketCap / marketPrice when marketCap is provided (0 included)
\* and the price is > 0; otherwise 100,000,000. The per-share value follows
\* from that count.
C5_Original ==
  /\ Same(shares(options), C5_Shares)
  /\ Same(results.intrinsicValue,
          IF RGt(C5_Shares, Zero)
          THEN RDiv(results.impliedMarketCap, C5_Shares) ELSE Zero)

C7_Price ==
  IF IsUndef(options.marketPrice) THEN Num(25) ELSE options.marketPrice

\* C7: the market price is options.marketPrice when provided, else 25; the
\* margin of safety is (intrinsicValue - price) / price * 100 when the price
\* is > 0 and 0 when it is <= 0; for a price > 0 it is positive exactly when
\* intrinsicValue exceeds the price.
C7_MarginOfSafety ==
  /\ RGt(C7_Price, Zero) =>
       /\ Same(results.marginOfSafety,
               RMul(RDiv(RSub(results.intrinsicValue, C7_Price), C7_Price),
                    Hundred))
       /\ RGt(results.marginOfSafety, Zero)
            <=> RGt(results.intrinsicValue, C7_Price)
  /\ RLe(C7_Price, Zero) => IsZero(results.marginOfSafety)

\* a price of 0 was supplied, the value is not 0 and the margin is 0
C7_Witness ==
  /\ ~IsUndef(options.marketPrice) /\ IsZero(options.marketPrice)
  /\ RGt(results.intrinsicValue, Zero)
  /\ IsZero(results.marginOfSafety)

\* ---- C8 ----
\* last * (1 + g/100) / max(d/100 - g/100, 0.02)
C8_TerminalValue ==
  RDiv(RMul(results.projectedFCFs[Len(results.projectedFCFs)],
            RAdd(One, Pct(GrowthInUse))),
       MathMax(RSub(Pct(RateInUse), Pct(GrowthInUse)), Dec(2, -2)))

C9_Original ==
  Same(RateInUse, GrowthInUse) =>
    IsFin(results.intrinsicValue) /\ RGt(results.intrinsicValue, Zero)

C9_Pre ==
  /\ Same(RateInUse, GrowthInUse)
  /\ RGt(RateInUse, Num(-100))
  /\ WholePeriod
  /\ \A i \in 1..Len(results.projectedFCFs) :
       IsFin(results.projectedFCFs[i]) /\ RGt(results.projectedFCFs[i], Zero)
  /\ IsUndef(options.netDebt) \/ RLe(options.netDebt, Zero)
  /\ RGt(shares(options), Zero)

\* C9: whenever the discount rate equals the terminal growth and is above
\* -100 %, the projection period is a whole number, every projected cash flow
\* is positive, net debt is absent or <= 0 and the share count resolves to a
\* positive number, intrinsicValue is finite and positive.
C9_Amended ==
  C9_Pre => IsFin(results.intrinsicValue) /\ RGt(results.intrinsicValue, Zero)

C9_Witness ==
  /\ C9_Pre
  /\ Same(RateInUse, Num(5))
  /\ IsFin(results.intrinsicValue) /\ RGt(results.intrinsicValue, Zero)

\* ---- C10 ----
AllFinite(r) ==
  /\ IsFin(r.intrinsicValue)
  /\ IsFin(r.enterpriseValue)
  /\ IsFin(r.impliedMarketCap)
  /\ IsFin(r.marginOfSafety)
  /\ \A i \in 1..Len(r.projectedFCFs) : IsFin(r.projectedFCFs[i])

C10_Pre ==
  /\ RGt(RateInUse, Num(-100))
  /\ BothPresent(options)
       \/ (~Same(inputs.revenueCagr, Num(-100)) /\ WholePeriod)

PositiveFlows(r) ==
  \A i \in 1..Len(r.projectedFCFs) :
    IsFin(r.projectedFCFs[i]) /\ RGt(r.projectedFCFs[i], Zero)

\* ---- C11 ----
\* a step that raises inputs.discountRate and changes nothing else
C11_Step ==
  /\ options' = options
  /\ \A f \in InputFields \ {"discountRate"} : inputs'[f] = inputs[f]
  /\ RGt(inputs'.discountRate, inputs.discountRate)

\* C11 as stated: with positive cash flows, raising inputs.discountRate and
\* nothing else strictly lowers intrinsicValue.
C11_Original ==
  [][ (C11_Step /\ PositiveFlows(results) /\ PositiveFlows(results'))
        => RLt(results'.intrinsicValue, results.intrinsicValue) ]_vars

C11_Pre ==
  /\ IsUndef(options.wacc)
  /\ RGt(shares(options), Zero)
  /\ RGt(inputs.discountRate, Num(-100))
  /\ RGe(GrowthInUse, Num(-100))
  /\ BothPresent(options) \/ WholePeriod

\* C11: with positive cash flows, options.wacc absent, a share count that
\* resolves to a positive number, a discount rate above -100 %, a terminal
\* growth of at least -100 % and (on the revenue-driven path) a whole-number
\* projection period, raising inputs.discountRate and nothing else strictly
\* lowers intrinsicValue.
C11_Amended ==
  [][ (C11_Step /\ C11_Pre /\ PositiveFlows(results) /\ PositiveFlows(results'))
        => RLt(results'.intrinsicValue, results.intrinsicValue) ]_vars

\* the discount rate was raised from 10 to 21 with no override in the way
C11_Witness ==
  /\ calls >= 1
  /\ C11_Pre
  /\ PositiveFlows(results)
  /\ Same(inputs.discountRate, Num(21))
  /\ inputs.terminalGrowth = sampleInputs.terminalGrowth
  /\ options \in {NoOptions, fcfOptions}
  /\ IsFin(results.intrinsicValue)

\* ---- C12 ----
\* a step that raises inputs.terminalGrowth, keeps it below the discount
\* rate in use, and changes nothing else
C12_Step ==
  /\ options' = options
  /\ \A f \in InputFields \ {"terminalGrowth"} : inputs'[f] = inputs[f]
  /\ RGt(inputs'.terminalGrowth, inputs.terminalGrowth)
  /\ RLt(inputs'.terminalGrowth, RateInUse)

\* C12 as stated: with positive cash flows, raising inputs.terminalGrowth
\* below the discount rate and nothing else strictly raises intrinsicValue.
C12_Original ==
  [][ (C12_Step /\ PositiveFlows(results) /\ PositiveFlows(results'))
        => RGt(results'.intrinsicValue, results.intrinsicValue) ]_vars

C12_Pre ==
  /\ ~BothPresent(options) \/ IsUndef(options.terminalRate)
  /\ RGt(shares(options), Zero)
  /\ RGt(RateInUse, Num(-100))
  /\ BothPresent(options) \/ WholePeriod

\* C12: with positive cash flows, a share count that resolves to a positive
\* number, a discount rate above -100 %, options.terminalRate absent on the
\* FCF-growth path and (on the revenue-driven path) a whole-number projection
\* period, raising inputs.terminalGrowth below the discount rate and nothing
\* else strictly raises intrinsicValue, the region of the 0.02 floor included.
C12_Amended ==
  [][ (C12_Step /\ C12_Pre /\ PositiveFlows(results) /\ PositiveFlows(results'))
        => RGt(results'.intrinsicValue, results.intrinsicValue) ]_vars

\* terminal growth was raised from 3 to 9 under a discount rate of 10: the
\* floor divides
C12_Witness ==
  /\ calls >= 1
  /\ C12_Pre
  /\ PositiveFlows(results)
  /\ Same(inputs.terminalGrowth, Num(9))
  /\ Same(RateInUse, Num(10))
  /\ IsFin(results.intrinsicValue)

\* ---- the valuation as the specification writes it ----
\* the projection period and the discounting convention in use
PeriodInUse ==
  IF IsUndef(options.periodYears) \/ RLe(options.periodYears, Zero)
  THEN Num(5) ELSE options.periodYears

MidYear == options.useMidYear = "true"

\* p[1] / (1 + d)^e(1) + ... + p[k] / (1 + d)^e(k), with e(i) = i at year
\* end and e(i) = i - 0.5 at mid-year (i counted from 1)
RECURSIVE DiscountedFlows(_, _, _, _)
DiscountedFlows(p, k, d, mid) ==
  IF k = 0 THEN Zero
  ELSE RAdd(DiscountedFlows(p, k - 1, d, mid),
            RDiv(p[k], MathPow(RAdd(One, d),
                               IF mid THEN RSub(Num(k), Half) ELSE Num(k))))

\* discounted flows plus tv / (1 + d)^eT, with eT = T or T - 0.5
ValueOf(p, d, tv, T, mid) ==
  RAdd(DiscountedFlows(p, Len(p), d, mid),
       RDiv(tv, MathPow(RAdd(One, d), IF mid THEN RSub(T, Half) ELSE T)))

\* last * (1 + g) / max(d - g, 0.02)
GordonValue(p, d, g) ==
  RDiv(RMul(p[Len(p)], RAdd(One, g)), MathMax(RSub(d, g), Dec(2, -2)))

\* ---- C13 ----
C13_Rate == IF IsUndef(options.wacc) THEN inputs.discountRate ELSE options.wacc
C13_Growth ==
  IF IsUndef(options.terminalRate) THEN inputs.terminalGrowth
  ELSE options.terminalRate

C13_Rates ==
  BothPresent(options) =>
    Same(results.enterpriseValue,
         ValueOf(results.projectedFCFs, Pct(C13_Rate),
                 GordonValue(results.projectedFCFs, Pct(C13_Rate),
                             Pct(C13_Growth)),
                 PeriodInUse, MidYear))

\* a call leaves the caller's inputs record as the caller set it
C13_InputsKept ==
  /\ options' # options => inputs' = inputs
  /\ Cardinality({f \in InputFields : inputs'[f] # inputs[f]}) <= 1

\* C13: on the FCF-growth path the rate that discounts the cash flows and the
\* terminal value and that enters the terminal value is options.wacc when
\* present, else inputs.discountRate; the terminal growth is
\* options.terminalRate when present, else inputs.terminalGrowth; and the
\* inputs record holds its own discountRate and terminalGrowth after the call.
C13_RateOverrides == []C13_Rates /\ [][C13_InputsKept]_vars

\* both overrides are present on the FCF-growth path and differ from the
\* inputs' rates
C13_Witness ==
  /\ BothPresent(options)
  /\ ~IsUndef(options.wacc) /\ ~Same(options.wacc, inputs.discountRate)
  /\ ~IsUndef(options.terminalRate)
  /\ ~Same(options.terminalRate, inputs.terminalGrowth)
  /\ Same(inputs.discountRate, Num(21))
  /\ IsFin(results.enterpriseValue)

\* ---- C14 ----
\* a step that changes options.terminalRate and nothing else
C14_Step ==
  /\ inputs' = inputs
  /\ \A f \in OptionFields \ {"terminalRate"} : options'[f] = options[f]
  /\ options'.useMidYear = options.useMidYear

C14_Revenue ==
  (~BothPresent(options) /\ WholePeriod) =>
    Same(results.enterpriseValue,
         ValueOf(results.projectedFCFs, Pct(RateInUse),
                 GordonValue(results.projectedFCFs, Pct(RateInUse),
                             Pct(inputs.terminalGrowth)),
                 PeriodInUse, MidYear))

C14_Fcf ==
  (BothPresent(options) /\ ~IsUndef(options.terminalRate)) =>
    Same(results.enterpriseValue,
         ValueOf(results.projectedFCFs, Pct(RateInUse),
                 GordonValue(results.projectedFCFs, Pct(RateInUse),
                             Pct(options.terminalRate)),
                 PeriodInUse, MidYear))

\* C14: on the revenue-driven path a change to options.terminalRate changes
\* no field of the result, the terminal growth being inputs.terminalGrowth,
\* while options.wacc, when present, is the discount rate; on the FCF-growth
\* path options.terminalRate, when present, is the terminal growth.
C14_Asymmetry ==
  /\ [](C14_Revenue /\ C14_Fcf)
  /\ [][ (~BothPresent(options) /\ C14_Step)
           => ResultsSame(results, results') ]_vars

\* the revenue-driven path with a wacc and a terminalRate that was changed
\* to a value other than inputs.terminalGrowth
C14_Witness ==
  /\ calls >= 1
  /\ ~BothPresent(options)
  /\ ~IsUndef(options.wacc)
  /\ Same(options.terminalRate, Num(5))
  /\ Same(inputs.terminalGrowth, Num(3))
  /\ IsFin(results.enterpriseValue)

\* ---- C17 ----
\* the terminal value of the path in use
C17_TerminalValue ==
  IF BothPresent(options)
  THEN fcfTerminalValue(results.projectedFCFs,
                        fcfTerminalGrowth(inputs, options),
                        fcfDiscountRate(inputs, options))
  ELSE revTerminalValue(results.projectedFCFs, inputs,
                        revDiscountRate(inputs, options), years(options))

\* C17: enterpriseValue is the sum of projectedFCFs[i] / (1 + d)^e(i) plus
\* terminalValue / (1 + d)^eT, with e(i) = i + 1 (i from 0) and
\* eT = periodYears at year end, each 0.5 less when useMidYear is true; an
\* absent useMidYear means year end.
C17_Composition ==
  Same(results.enterpriseValue,
       ValueOf(results.projectedFCFs, Pct(RateInUse), C17_TerminalValue,
               PeriodInUse, MidYear))

\* a mid-year valuation
C17_Witness ==
  /\ MidYear
  /\ Len(results.projectedFCFs) >= 2
  /\ IsFin(results.enterpriseValue)
  /\ RGt(results.enterpriseValue, Zero)

\* ---- C15 ----
\* the inputs with the terminal growth in use as their terminalGrowth
C15_Inputs == [inputs EXCEPT !.terminalGrowth = GrowthInUse]

\* C15 as stated: fed the same projectedFCFs, discount rate, terminal growth,
\* netDebt, shares, marketPrice, periodYears and useMidYear, the valuation of
\* the FCF-growth path and that of the revenue-driven path give the same
\* enterpriseValue, impliedMarketCap, intrinsicValue and marginOfSafety.
C15_Original ==
  ResultsSame(fcfValuation(results.projectedFCFs, Pct(GrowthInUse),
                           Pct(RateInUse), options),
              revValuation(results.projectedFCFs, C15_Inputs,
                           Pct(RateInUse), options))

\* C15: fed the same projectedFCFs, discount rate, terminal growth, netDebt,
\* shares, marketPrice, whole-number periodYears and useMidYear, the
\* valuation of the FCF-growth path and that of the revenue-driven path give
\* the same enterpriseValue, impliedMarketCap, intrinsicValue and
\* marginOfSafety, which are those of the result.
C15_Amended ==
  WholePeriod =>
    /\ ResultsSame(fcfValuation(results.projectedFCFs, Pct(GrowthInUse),
                                Pct(RateInUse), options),
                   revValuation(results.projectedFCFs, C15_Inputs,
                                Pct(RateInUse), options))
    /\ ResultsSame(results,
                   IF BothPresent(options)
                   THEN revValuation(results.projectedFCFs, C15_Inputs,
                                     Pct(RateInUse), options)
                   ELSE fcfValuation(results.projectedFCFs, Pct(GrowthInUse),
                                     Pct(RateInUse), options))

\* a revenue-driven mid-year result with net debt, a price and a share count
\* supplied
C15_Witness ==
  /\ ~BothPresent(options)
  /\ WholePeriod /\ MidYear
  /\ ~IsUndef(options.netDebt) /\ ~IsUndef(options.marketPrice)
  /\ ~IsUndef(options.sharesOutstanding)
  /\ IsFin(results.intrinsicValue) /\ ~IsZero(results.marginOfSafety)

\* ---- C16 ----
C16_NetDebt == IF IsUndef(options.netDebt) THEN Zero ELSE options.netDebt

C16_Bridge ==
  /\ REq(results.impliedMarketCap, RSub(results.enterpriseValue, C16_NetDebt))
  /\ IsUndef(options.netDebt)
       => REq(results.impliedMarketCap, results.enterpriseValue)
  /\ RGt(C16_NetDebt, Zero)
       => RLt(results.impliedMarketCap, results.enterpriseValue)

\* C16 as stated: in every result impliedMarketCap == enterpriseValue -
\* netDebt (0 when absent), equal to enterpriseValue when netDebt is absent
\* and strictly smaller when netDebt is positive.
C16_Original == C16_Bridge

\* C16: in every result whose enterpriseValue is finite, impliedMarketCap ==
\* enterpriseValue - netDebt (0 when absent), equal to enterpriseValue when
\* netDebt is absent and strictly smaller when netDebt is positive.
C16_Amended == IsFin(results.enterpriseValue) => C16_Bridge

\* a positive net debt under a finite enterprise value
C16_Witness ==
  /\ RGt(C16_NetDebt, Zero)
  /\ IsFin(results.enterpriseValue)
  /\ RLt(results.impliedMarketCap, results.enterpriseValue)

\* ---- C18 ----
C18_Factor == RAdd(One, Pct(options.growthEstimate5Y))

\* C18: on the FCF-growth path projectedFCFs[k-1] == fcfLatest *
\* (1 + growthEstimate5Y/100)^k for every year k, each entry is the previous
\* one compounded once, the first entry is fcfLatest compounded once (the
\* latest cash flow itself is not an entry) and a whole-number period gives
\* that many entries.
C18_FcfProjection ==
  BothPresent(options) =>
    /\ \A k \in 1..Len(results.projectedFCFs) :
         /\ Same(results.projectedFCFs[k],
                 RMul(options.fcfLatest, IPow(C18_Factor, k)))
         /\ k > 1 => Same(results.projectedFCFs[k],
                          RMul(results.projectedFCFs[k - 1], C18_Factor))
    /\ Same(results.projectedFCFs[1], RMul(options.fcfLatest, C18_Factor))
    /\ WholePeriod => Same(Num(Len(results.projectedFCFs)), PeriodInUse)

\* three years of a cash flow of 1000 growing at 10 %
C18_Witness ==
  /\ BothPresent(options)
  /\ Same(options.fcfLatest, Num(1000))
  /\ Same(options.growthEstimate5Y, Num(10))
  /\ Len(results.projectedFCFs) = 3
  /\ Same(results.projectedFCFs[3], Num(1331))

\* ---- C19 ----
C19_Base ==
  IF IsUndef(options.baseRevenue) THEN Num(1000000000) ELSE options.baseRevenue

C19_Da == IF IsUndef(options.daPercent) THEN Zero ELSE options.daPercent

\* R_t = R_0 * (1 + revenueCagr/100)^t
C19_Revenue(t) == RMul(C19_Base, IPow(RAdd(One, Pct(inputs.revenueCagr)), t))

\* R_t*ebitMargin% * (1 - taxRate%) + R_t*daPercent% - R_t*capexPercent%
\* - (R_t - R_(t-1)) * nwcPercent%
C19_Fcf(t) ==
  RSub(RSub(RAdd(RMul(RMul(C19_Revenue(t), Pct(inputs.ebitMargin)),
                      RSub(One, Pct(inputs.taxRate))),
                 RMul(C19_Revenue(t), Pct(C19_Da))),
            RMul(C19_Revenue(t), Pct(inputs.capexPercent))),
       RMul(RSub(C19_Revenue(t), C19_Revenue(t - 1)), Pct(inputs.nwcPercent)))

\* C19 as stated: on the revenue-driven path the cash flow of every year t is
\* R_t*ebitMargin% * (1 - taxRate%) + R_t*daPercent% - R_t*capexPercent% -
\* (R_t - R_(t-1)) * nwcPercent%, for every revenueCagr, with daPercent 0 when
\* absent.
C19_Original ==
  ~BothPresent(options) =>
    \A t \in 1..Len(results.projectedFCFs) :
      Same(results.projectedFCFs[t], C19_Fcf(t))

\* ---- C20 ----
C20_Center == IF IsUndef(options.wacc) THEN inputs.discountRate ELSE options.wacc

\* r is a whole number nearest to x
C20_Nearest(r, x) ==
  IsWhole(r) /\ RLe(RSub(r, x), Half) /\ RLe(RSub(x, r), Half)

C20_Growths == <<Num(1), Dec(15, -1), Num(2), Dec(25, -1), Num(3)>>

\* C20: generateSensitivityData returns values with exactly 5 rows of exactly
\* 5 entries, terminalGrowthRates == [1, 1.5, 2, 2.5, 3] whatever the inputs,
\* and discountRates == [center-2, center-1, center, center+1, center+2],
\* each rounded to the nearest integer, with center = options.wacc when
\* present, else inputs.discountRate.
C20_GridShape ==
  /\ Len(sensitivityData.values) = 5
  /\ \A i \in 1..5 : Len(sensitivityData.values[i]) = 5
  /\ Len(sensitivityData.terminalGrowthRates) = 5
  /\ \A j \in 1..5 : Same(sensitivityData.terminalGrowthRates[j], C20_Growths[j])
  /\ Len(sensitivityData.discountRates) = 5
  /\ \A k \in 1..5 :
       C20_Nearest(sensitivityData.discountRates[k],
                   RAdd(C20_Center, Num(k - 3)))

\* a centre of 7.5 from options.wacc: the rates are 6, 7, 8, 9, 10
C20_Witness ==
  /\ Same(options.wacc, Dec(75, -1))
  /\ Same(sensitivityData.discountRates[1], Num(6))
  /\ Same(sensitivityData.discountRates[5], Num(10))
  /\ Len(sensitivityData.values) = 5

\* ---- C21 ----
GridSame(a, b) ==
  /\ Len(a.discountRates) = Len(b.discountRates)
  /\ \A i \in 1..Len(a.discountRates) :
       Same(a.discountRates[i], b.discountRates[i])
  /\ Len(a.terminalGrowthRates) = Len(b.terminalGrowthRates)
  /\ \A j \in 1..Len(a.terminalGrowthRates) :
       Same(a.terminalGrowthRates[j], b.terminalGrowthRates[j])
  /\ Len(a.values) = Len(b.values)
  /\ \A i \in 1..Len(a.values) :
       /\ Len(a.values[i]) = Len(b.values[i])
       /\ \A j \in 1..Len(a.values[i]) : Same(a.values[i][j], b.values[i][j])

C21_Stripped == [options EXCEPT !.wacc = Undef, !.terminalRate = Undef]

C21_CellValue(i, j) ==
  MathRound(calculateDCF(
              [inputs EXCEPT !.discountRate = sensitivityData.discountRates[i],
                             !.terminalGrowth =
                               sensitivityData.terminalGrowthRates[j]],
              C21_Stripped).intrinsicValue)

C21_Cells ==
  \A i \in 1..5 : \A j \in 1..5 :
    Same(sensitivityData.values[i][j], C21_CellValue(i, j))

\* the grid is the grid of the same assumptions with the centre as their
\* discount rate and neither override
C21_CenterOnly ==
  GridSame(sensitivityData,
           generateSensitivityData([inputs EXCEPT !.discountRate = C20_Center],
                                   C21_Stripped))

\* a step that changes nothing but options.terminalRate keeps the grid
C21_TerminalRateStep ==
  (/\ inputs' = inputs
   /\ \A f \in OptionFields \ {"terminalRate"} : options'[f] = options[f])
  => GridSame(sensitivityData', sensitivityData)

\* C21: for all i, j in 0..4, values[i][j] is the rounded intrinsicValue of
\* calculateDCF on the inputs with discountRate := discountRates[i] and
\* terminalGrowth := terminalGrowthRates[j] and on the options without wacc
\* and terminalRate, every other option passed through; so the grid does not
\* depend on options.terminalRate and depends on options.wacc only through
\* the centre of the axis.
C21_SensitivityCells ==
  /\ [](C21_Cells /\ C21_CenterOnly)
  /\ [][C21_TerminalRateStep]_vars

\* FCF path with both overrides set (wacc 7.5, terminalRate 2): the row of
\* the lowest rate still varies with the terminal growth of the axis
C21_Witness ==
  /\ useFcfPath(options)
  /\ Same(options.wacc, Dec(75, -1))
  /\ Same(options.terminalRate, Num(2))
  /\ RLt(sensitivityData.values[1][1], sensitivityData.values[1][5])
  /\ Same(sensitivityData.values[3][3], C21_CellValue(3, 3))

\* ---- C22 ----
C22_Overrides ==
  /\ Len(sensitivityData.values) = 5
  /\ Same(options.wacc, Num(9))
  /\ Same(options.terminalRate, Num(3))

C22_AllIdentical ==
  \A i \in 1..5 : \A j \in 1..5 :
    Same(sensitivityData.values[i][j], sensitivityData.values[1][1])

\* the intrinsic value at discount rate dr and terminal growth tg, computed
\* from the caller's other assumptions without the two overrides
C22_ValueAt(dr, tg) ==
  calculateDCF([inputs EXCEPT !.discountRate = dr, !.terminalGrowth = tg],
               C21_Stripped).intrinsicValue

\* the values at the two far corners of the axes are at least 1 apart
C22_CornersApart ==
  RGe(RSub(C22_ValueAt(Num(7), Num(3)), C22_ValueAt(Num(11), Num(1))), One)

\* C22 as stated: with options.wacc = 9 and options.terminalRate = 3 the 25
\* cells of the matrix are not all identical, on whichever projection path
\* the options select.
C22_Original == C22_Overrides => ~C22_AllIdentical

\* C22 amended: with options.wacc = 9 and options.terminalRate = 3 the cells
\* are evaluated at the rates 7..11 and the growths 1..3 of the axes, so the
\* corner cells values[0][4] and values[4][0] differ whenever the intrinsic
\* values at (rate 7, growth 3) and (rate 11, growth 1) are at least 1
\* apart, on either path; when every such value is the same number (no cash
\* flow at all) the 25 cells are identical.
C22_Amended ==
  /\ C22_Overrides /\ C22_CornersApart
       => RGt(sensitivityData.values[1][5], sensitivityData.values[5][1])
  /\ C22_Overrides /\ useFcfPath(options) /\ IsZero(options.fcfLatest)
       => C22_AllIdentical

\* FCF path with both overrides set and cash flows: the corners differ
C22_Witness ==
  /\ C22_Overrides
  /\ useFcfPath(options)
  /\ C22_CornersApart
  /\ ~C22_AllIdentical

\* ---- C29 ----
\* the terminal growth calculateDCF(inputs, options) uses
C29_Growth ==
  IF useFcfPath(options) /\ ~IsUndef(options.terminalRate)
  THEN options.terminalRate
  ELSE inputs.terminalGrowth

\* C29: when the centre of the axis (options.wacc, else
\* inputs.discountRate) is an integer and the terminal growth used by
\* calculateDCF(inputs, options) is one of 1, 1.5, 2, 2.5, 3, the cell
\* values[2][j] of that terminal growth equals the rounded intrinsicValue of
\* calculateDCF(inputs, options).
C29_Headline ==
  \A j \in 1..5 :
    (/\ Len(sensitivityData.values) = 5
     /\ IsWhole(C20_Center)
     /\ Same(C29_Growth, C20_Growths[j]))
    => Same(sensitivityData.values[3][j], MathRound(results.intrinsicValue))

\* FCF path, centre 9 from options.wacc, terminal growth 2 from
\* options.terminalRate: the headline value is the middle cell, and the cell
\* of inputs.terminalGrowth = 3 is another number
C29_Witness ==
  /\ useFcfPath(options)
  /\ Same(options.wacc, Num(9))
  /\ Same(options.terminalRate, Num(2))
  /\ Same(inputs.terminalGrowth, Num(3))
  /\ Same(sensitivityData.values[3][3], MathRound(results.intrinsicValue))
  /\ ~Same(sensitivityData.values[3][5], MathRound(results.intrinsicValue))

\* ---- C30 ----
C30_AxisSteps ==
  /\ Len(sensitivityData.discountRates) = 5
  /\ \A k \in 1..4 :
       Same(sensitivityData.discountRates[k + 1],
            RAdd(sensitivityData.discountRates[k], One))

C30_Pre ==
  /\ PositiveFlows(results)
  /\ RGt(shares(options), Zero)
  /\ \A k \in 1..5 : RGt(sensitivityData.discountRates[k], Zero)

C30_Rows ==
  \A i \in 1..5 : \A j \in 1..4 :
    RLe(sensitivityData.values[i][j], sensitivityData.values[i][j + 1])

C30_Columns ==
  \A i \in 1..4 : \A j \in 1..5 :
    RGe(sensitivityData.values[i][j], sensitivityData.values[i + 1][j])

\* the cell (i, j) is computed with the 0.02 floor on discountRate -
\* terminalGrowth engaged
C30_Floored(i, j) ==
  RLt(RSub(Pct(sensitivityData.discountRates[i]),
           Pct(sensitivityData.terminalGrowthRates[j])), Dec(2, -2))

\* C30: the discountRates axis is strictly increasing in steps of exactly 1
\* for every centre, integer or not; and for positive projected cash flows,
\* positive shares and positive discount rates, values[i][j] <=
\* values[i][j+1] along every row and values[i][j] >= values[i+1][j] down
\* every column, cells with the 0.02 floor engaged included.
C30_GridOrdering ==
  /\ C30_AxisSteps
  /\ C30_Pre => C30_Rows /\ C30_Columns

\* centre 3: the rates 1..5 are positive, the cells of the lowest rate are
\* floored, and the grid rises along its first row and falls down its first
\* column
C30_Witness ==
  /\ Same(options.wacc, Num(3))
  /\ C30_Pre
  /\ C30_Floored(1, 1) /\ C30_Floored(3, 5) /\ ~C30_Floored(5, 1)
  /\ RLt(sensitivityData.values[1][1], sensitivityData.values[1][5])
  /\ RGt(sensitivityData.values[1][1], sensitivityData.values[5][1])

\* ------------------------------------------------------------------------
\* Properties of the DCFModule component
\* ------------------------------------------------------------------------

\* the animation loops that have a frame pending
RunningLoops == { f.run : f \in frames }

\* ---- C25 ----
C25_OneLoop == Cardinality(RunningLoops) <= 1

\* a change of the intrinsic value leaves no frame of an earlier loop pending
C25_Cancelled ==
  results'.intrinsicValue # results.intrinsicValue
  => \A f \in frames' : f.run \notin RunningLoops

\* C25: when the intrinsic value changes while a value animation is still
\* running, the earlier animation loop stops (its pending frame is cancelled
\* and it schedules no further frames), so at most one animation loop is
\* writing animatedValue at any time.
C25_Original == []C25_OneLoop /\ [][C25_Cancelled]_vars

\* the same for the component that keeps the frame id in rafIdRef
C25_Tracked ==
  /\ [](component = "part_001" => C25_OneLoop)
  /\ [][component = "part_001" => C25_Cancelled]_vars

\* ---- C26 ----
\* a fetch call that settles in this step for another ticker than the
\* current one changes neither fetchedInputs nor companyMeta
C26_StaleIgnored ==
  \A c \in inFlight \ inFlight' :
    c.ticker # trim(ticker)
    => fetchedInputs' = fetchedInputs /\ companyMeta' = companyMeta

\* nothing is scheduled or in flight
Quiet == timers = {} /\ inFlight = {}

\* once the ticker has stopped changing the engine runs on the data of the
\* latest ticker
C26_LatestData ==
  Quiet /\ component = "part_001" /\ ~Blank(ticker)
  => /\ fetchedInputs = fetchDCFInputs(trim(ticker)).inputs
     /\ companyMeta = fetchDCFInputs(trim(ticker)).meta
     /\ inputs = fetchedInputs
     /\ options = calcOptions(companyMeta)

C27_OneTimer ==
  /\ Cardinality(timers) <= 1
  /\ \A t \in timers : t.ticker = ticker /\ ~Blank(ticker)

\* fetchDCFInputs is invoked only by the timer of the current ticker, with
\* that ticker
C27_FetchStep ==
  fetches' # fetches
  => /\ ~Blank(ticker)
     /\ fetches' = Append(fetches, trim(ticker))
     /\ \E t \in timers : t.ticker = ticker /\ t \notin timers'
     /\ ticker' = ticker

\* a change of the ticker cancels the pending timer and fetches nothing; a
\* blank ticker sets no timer and resets the fetched state, any other
\* ticker sets one timer
C27_EditStep ==
  ticker' # ticker
  => /\ timers \cap timers' = {}
     /\ fetches' = fetches
     /\ IF Blank(ticker')
        THEN /\ timers' = {}
             /\ fetchedInputs' = Null /\ companyMeta' = Null /\ error' = Null
        ELSE Cardinality(timers') = 1

\* C27: fetchDCFInputs is invoked only for a non-empty ticker value that
\* stayed unchanged for the full delay; every ticker change made while the
\* timer is pending cancels that timer, so a burst of changes inside the
\* delay causes exactly one fetch, for the last value; an empty ticker
\* schedules no fetch and resets fetchedInputs, companyMeta and error to
\* null.
C27_Debounce ==
  /\ []C27_OneTimer
  /\ [][C27_FetchStep /\ C27_EditStep]_vars

\* mounted with AAPL, two edits ending in MSFT before any timer fired, then
\* the timer fired: one fetch, for MSFT
C27_Witness ==
  /\ component = "part_001"
  /\ calls = 2
  /\ ticker = <<"M", "S", "F", "T">>
  /\ fetches = << <<"M", "S", "F", "T">> >>
  /\ timers = {}

\* ---- C28 ----
\* C28: after any sequence of ticker edits, isLoading is true if and only
\* if a fetch is scheduled or in flight.
C28_Original == isLoading <=> (timers # {} \/ inFlight # {})

\* ------------------------------------------------------------------------
\* Properties of the engine on the heap
\* ------------------------------------------------------------------------

\* the arrays of the result at address a: projectedFCFs of a DCFResults;
\* the two axes, values and its rows of a SensitivityData
ArraysOf(h, a) ==
  IF "projectedFCFs" \in DOMAIN h[a].v
  THEN {h[a].v.projectedFCFs}
  ELSE {h[a].v.discountRates, h[a].v.terminalGrowthRates, h[a].v.values}
         \cup {h[h[a].v.values].v[i] : i \in 1..Len(h[h[a].v.values].v)}

\* ---- C24 ----
\* a call changes no object that existed before it
C24_Frame ==
  /\ Len(heap') >= Len(heap)
  /\ \A a \in 1..Len(heap) : heap'[a] = heap[a]
  /\ heap'[args.inputs] = heap[args.inputs]
  /\ heap'[args.options].v.wacc = heap[args.options].v.wacc
  /\ heap'[args.options].v.terminalRate = heap[args.options].v.terminalRate
  /\ heap'[1] = Obj(sampleInputs)

\* the result of a call and its arrays are created by that call
C24_Fresh ==
  returned' # returned
  => /\ returned' = Append(returned, Len(heap'))
     /\ Len(heap') > Len(heap)
     /\ \A x \in ArraysOf(heap', Len(heap')) :
          x > Len(heap) /\ heap'[x].t = "array"

\* no two results returned so far share an array
C24_NotShared ==
  \A i, j \in 1..Len(returned) :
    i # j => /\ returned[i] # returned[j]
             /\ ArraysOf(heap, returned[i]) \cap ArraysOf(heap, returned[j]) = {}

\* C24: calculateDCF and generateSensitivityData leave the caller's inputs
\* record, the caller's options record (its wacc and terminalRate included)
\* and the module-level sampleInputs unchanged, and each call returns a
\* freshly constructed result whose projectedFCFs / values arrays are not
\* shared with any earlier result.
C24_NoSideEffects ==
  /\ [](C24_NotShared /\ (heap # << >> => heap[1] = Obj(sampleInputs)))
  /\ [][C24_Frame /\ C24_Fresh]_vars

\* sampleInputs itself was passed with both overrides set, to one call of
\* each function
C24_Witness ==
  /\ Len(returned) = 2
  /\ args.inputs = 1
  /\ heap[args.options].v.wacc = Num(9)
  /\ heap[args.options].v.terminalRate = Num(2)
  /\ "projectedFCFs" \in DOMAIN heap[returned[1]].v
  /\ "values" \in DOMAIN heap[returned[2]].v
  /\ Len(heap[heap[returned[2]].v.values].v) = 5

====
